---- MODULE Spec2Model ----
(***************************************************************************)
(* Model of the wallet tracker's Solana ingestion loop                     *)
(* (src/src/tracker/sol_tracker.py), its event classification and the      *)
(* detectors it calls (src/src/analysis/*.py).                             *)
(*                                                                         *)
(* Units.  Native (SOL) amounts are integers in units of 0.001 SOL, so the *)
(* code's "abs(sol_diff) > 0.001" is "Abs(solDiff) > SOL_DUST".  Token     *)
(* amounts are integers in units of 0.000001 token, so the code's          *)
(* "abs(diff) > 0.000001" is "Abs(diff) > TOKEN_DUST".  Time is in whole   *)
(* minutes.  A nullable column holds "None" (strings) or -1 (numbers).     *)
(***************************************************************************)
EXTENDS Integers, Sequences, FiniteSets, TLC

VARIABLES
    cls_in,         \* classification harness: the raw transaction handed in
    cls_out,        \* classification harness: the classified event
    call_args,      \* the arguments of a function called on its own
    call_result,    \* the value it returned (<<>> before the call)
    now,            \* datetime.utcnow(), in minutes
    transactions,   \* table transactions: rows in id order
    reload_events,  \* table reload_events: rows in id order
    moments,        \* table moments: rows in id order
    wallet_stats,   \* table wallet_stats: one row per wallet_id (unique)
    funding_links,  \* table funding_links: rows in id order
    task,           \* per ingestion task: position, session, local variables
    calls,          \* history: how often each step ran for each tx hash
    unprofiled,     \* history: <<hash, detector>> run before the hash's profile update
    contrarian_signals, \* value returned by the last direct call of analyze_token_activity
    copiers,        \* history: the copier counts passed to update_alpha_score
    users           \* table users: access_level per chat_id, "absent" without a row

clsVars == <<cls_in, cls_out, call_args, call_result>>
dbVars == <<transactions, reload_events, moments, wallet_stats, funding_links>>
histVars == <<calls, unprofiled, contrarian_signals, copiers, users>>
vars == <<cls_in, cls_out, call_args, call_result, now, transactions, reload_events, moments, wallet_stats,
          funding_links, task, calls, unprofiled, contrarian_signals, copiers, users>>

\* The chats that talk to the bot, and the users table without any row.
ChatIds == {1, 2}
NoUsers == [u \in ChatIds |-> "absent"]

Abs(x) == IF x < 0 THEN 0 - x ELSE x

(***************************************************************************)
(* Bounds of the classification inputs.                                    *)
(***************************************************************************)
MaxPre == 1
MaxPost == 2

SOL_DUST == 1
TOKEN_DUST == 1

Mints == {"mX", "mY", "mUSDC"}
Amts == {0, 1, 5}
SolDiffs == {-1000, 0, 1, 1000}
Faults == {"none", "no_meta", "sol_err", "not_in_keys", "tok_none", "tok_err", "meta_fail"}

Kinds == {"BUY", "SELL", "SWAP", "TRANSFER", "UNKNOWN"}

\* sol_tracker.py line 218
stables == {"SOL", "USDC", "USDT", "wSOL", "WSOL", "USDC.e", "USDCet"}

\* The symbol the Helius metadata holds for a mint.
OnChainSymbol(mint) ==
    CASE mint = "mX" -> "X"
      [] mint = "mY" -> "Y"
      [] mint = "mUSDC" -> "USDC"
      [] OTHER -> "UNKNOWN"

\* get_token_metadata followed by symbol.replace('$','').strip(): the symbol
\* of the metadata, or the shortened mint address when the lookup fails.
get_token_metadata(mint, lookupFails) ==
    IF lookupFails THEN mint \o "..." ELSE OnChainSymbol(mint)

BalEntries == [mint : Mints, amt : Amts]

SeqsUpTo(S, n) == UNION {[1..k -> S] : k \in 0..n}

RawTxs ==
    [fault : Faults, solDiff : SolDiffs,
     pre : SeqsUpTo(BalEntries, MaxPre), post : SeqsUpTo(BalEntries, MaxPost)]

\* pre_map[mint] after the loop of lines 185-188 (a later entry overwrites).
RECURSIVE pre_map_get(_, _)
pre_map_get(pre, mint) ==
    IF pre = <<>> THEN 0
    ELSE IF pre[Len(pre)].mint = mint THEN pre[Len(pre)].amt
    ELSE pre_map_get(SubSeq(pre, 1, Len(pre) - 1), mint)

\* The loop of lines 194-212 over post_token_balances: the (symbol, mint,
\* amount) triples appended to tokens_gained (gained = TRUE) or tokens_lost.
RECURSIVE token_changes(_, _, _, _)
token_changes(pre, post, lookupFails, gained) ==
    IF post = <<>> THEN <<>>
    ELSE LET b == Head(post)
             diff == b.amt - pre_map_get(pre, b.mint)
             rest == token_changes(pre, Tail(post), lookupFails, gained)
             t == [sym |-> get_token_metadata(b.mint, lookupFails),
                   mint |-> b.mint, amt |-> Abs(diff)]
         IN IF Abs(diff) > TOKEN_DUST /\ ((diff > 0) = gained)
            THEN <<t>> \o rest
            ELSE rest

FilterStable(ts, wantStable) ==
    SelectSeq(ts, LAMBDA t : (t.sym \in stables) = wantStable)

Event(type, sym, addr, amt, solDiff) ==
    [type |-> type, symbol |-> sym, token_addr |-> addr, amount |-> amt,
     sol_diff |-> solDiff]

FromToken(type, t, solDiff) == Event(type, t.sym, t.mint, t.amt, solDiff)

\* A faulty variant of the defaults: db_tx_type starts unset (None) instead
\* of 'UNKNOWN'.
sol_default_untyped(sol_diff) ==
    IF Abs(sol_diff) > SOL_DUST
    THEN Event("TRANSFER", "SOL", "None", Abs(sol_diff), sol_diff)
    ELSE Event("None", "None", "None", 0, sol_diff)

\* Lines 146-149 and 161-178: the defaults, overwritten by the native delta.
sol_default(sol_diff) ==
    IF Abs(sol_diff) > SOL_DUST
    THEN Event("TRANSFER", "SOL", "None", Abs(sol_diff), sol_diff)
    ELSE Event("UNKNOWN", "None", "None", 0, sol_diff)

\* Lines 223-280: the BUY / SELL / SWAP decision over tokens_gained and
\* tokens_lost; dflt is what lines 146-178 left in db_tx_type, db_symbol,
\* db_token_addr and db_amount.
classify_tokens(tokens_gained, tokens_lost, sol_diff, dflt) ==
    LET gained_stables == FilterStable(tokens_gained, TRUE)
        gained_tokens == FilterStable(tokens_gained, FALSE)
        lost_stables == FilterStable(tokens_lost, TRUE)
        lost_tokens == FilterStable(tokens_lost, FALSE)
    IN
    IF tokens_lost # <<>> /\ tokens_gained # <<>> THEN
        IF lost_tokens # <<>> /\ (gained_stables # <<>> \/ sol_diff > SOL_DUST)
        THEN FromToken("SELL", lost_tokens[1], sol_diff)
        ELSE IF gained_tokens # <<>> /\ (lost_stables # <<>> \/ sol_diff < 0 - SOL_DUST)
        THEN FromToken("BUY", gained_tokens[1], sol_diff)
        ELSE IF lost_tokens # <<>> /\ gained_tokens # <<>>
        THEN FromToken("SWAP", gained_tokens[1], sol_diff)
        ELSE dflt
    ELSE IF tokens_gained # <<>> /\ tokens_lost = <<>> /\ sol_diff < 0 - SOL_DUST THEN
        \* line 255 sets db_tx_type before line 257 looks for a non-stable
        IF gained_tokens # <<>>
        THEN FromToken("BUY", gained_tokens[1], sol_diff)
        ELSE [dflt EXCEPT !.type = "BUY"]
    ELSE IF tokens_lost # <<>> /\ tokens_gained = <<>> /\ sol_diff > SOL_DUST THEN
        \* line 264 sets db_tx_type before line 266 looks for a non-stable
        IF lost_tokens # <<>>
        THEN FromToken("SELL", lost_tokens[1], sol_diff)
        ELSE [dflt EXCEPT !.type = "SELL"]
    ELSE IF tokens_lost # <<>> /\ tokens_gained = <<>> THEN
        IF lost_tokens # <<>>
        THEN FromToken("SELL", lost_tokens[1], sol_diff)
        ELSE dflt
    ELSE dflt

\* Lines 142-285 of check_wallet: the classification of one fetched
\* transaction.  raw.fault names the step at which the balance data is
\* missing or malformed.
classify(raw) ==
    LET sol_diff == IF raw.fault \in {"sol_err", "not_in_keys"} THEN 0 ELSE raw.solDiff
        dflt == sol_default(sol_diff)
        lookupFails == raw.fault = "meta_fail"
    IN
    IF raw.fault = "no_meta" THEN Event("UNKNOWN", "None", "None", 0, 0)
    ELSE IF raw.fault \in {"tok_none", "tok_err"} THEN dflt
    ELSE classify_tokens(token_changes(raw.pre, raw.post, lookupFails, TRUE),
                         token_changes(raw.pre, raw.post, lookupFails, FALSE),
                         sol_diff, dflt)

(***************************************************************************)
(* The database.  A row carries "by": "committed", or the task whose       *)
(* session flushed it and has not committed yet.  A session sees the       *)
(* committed rows and its own.  An UPDATE of a committed row is written in *)
(* place: it is visible to the other session before the commit.            *)
(***************************************************************************)
Visible(rows, t) == SelectSeq(rows, LAMBDA r : r.by \in {"committed", t})

Indices(rows, P(_)) == {i \in 1..Len(rows) : P(rows[i])}

RECURSIVE SetToSeq(_)
SetToSeq(S) ==
    IF S = {} THEN <<>>
    ELSE LET m == CHOOSE x \in S : \A y \in S : x <= y
         IN <<m>> \o SetToSeq(S \ {m})

RECURSIVE SumSeq(_)
SumSeq(s) == IF s = <<>> THEN 0 ELSE Head(s) + SumSeq(Tail(s))

RECURSIVE MaxSeq(_)
MaxSeq(s) ==
    IF Len(s) = 1 THEN s[1]
    ELSE LET m == MaxSeq(Tail(s)) IN IF Head(s) > m THEN Head(s) ELSE m

LastN(s, n) == IF Len(s) <= n THEN s ELSE SubSeq(s, Len(s) - n + 1, Len(s))

MaxAlphaUpdates == 3
MaxCopiers == 100
ALPHA_DECAY_PER_COPIER == 5

RECURSIVE Pow10(_)
Pow10(n) == IF n = 0 THEN 1 ELSE 10 * Pow10(n - 1)

\* avg_copiers_per_trade and alpha_score are kept as multiples of
\* 1 / AlphaScale: the moving average of up to MaxAlphaUpdates integer counts
\* is then an exact integer.
AlphaScale == Pow10(MaxAlphaUpdates)

\* A row of wallet_stats with the column defaults of models.py 36-53.
NoStats ==
    [by |-> "absent", avg_num |-> 0, avg_den |-> 1, max_buy_sol |-> 0,
     total_tx_count |-> 0, reload_buy_probability |-> -1,
     avg_time_to_buy_after_reload |-> -1,
     avg_copiers_per_trade |-> 0, alpha_score |-> 100 * AlphaScale]

HasStats(stats, w, t) == stats[w].by \in {"committed", t}

(***************************************************************************)
(* Program constants.                                                      *)
(***************************************************************************)
MIN_RELOAD_SOL == 5000
PREDICTION_WINDOW_MINUTES == 120
CABAL_TIME_WINDOW_MINUTES == 30
MIN_CLUSTER_SIZE == 2
CONTRARIAN_WINDOW_MINUTES == 60
MIN_TIER_C_BUYERS == 2
PROFILE_WINDOW == 50
SCAN_INTERVAL_MINUTES == 5

(***************************************************************************)
(* Profiler.update_wallet_stats (profiler.py 13-65).  The mean of the      *)
(* amounts is kept as the fraction avg_num / avg_den.                      *)
(***************************************************************************)
\* Lines 17-31: the positive amounts of the wallet's last 50 transactions.
profile_amounts(txs, t, wallet_id) ==
    LET mine == SelectSeq(Visible(txs, t), LAMBDA r : r.wallet_id = wallet_id)
        withAmount == SelectSeq(LastN(mine, PROFILE_WINDOW), LAMBDA r : r.amount > 0)
    IN [i \in 1..Len(withAmount) |-> withAmount[i].amount]

\* A faulty variant: the count of the window is added to the stored count.
update_wallet_stats_accumulating(txs, stats, t, wallet_id) ==
    LET mine == SelectSeq(Visible(txs, t), LAMBDA r : r.wallet_id = wallet_id)
        amounts == profile_amounts(txs, t, wallet_id)
    IN IF amounts = <<>> THEN stats
       ELSE [stats EXCEPT ![wallet_id] =
                [@ EXCEPT !.by = IF @ = "absent" THEN t ELSE @,
                          !.avg_num = SumSeq(amounts),
                          !.avg_den = Len(amounts),
                          !.max_buy_sol = MaxSeq(amounts),
                          !.total_tx_count = @ + Len(LastN(mine, PROFILE_WINDOW))]]

\* The wallet_stats table afterwards; no row is touched when line 25 or line
\* 34 returns.
update_wallet_stats(txs, stats, t, wallet_id) ==
    LET mine == SelectSeq(Visible(txs, t), LAMBDA r : r.wallet_id = wallet_id)
        amounts == profile_amounts(txs, t, wallet_id)
    IN IF amounts = <<>> THEN stats
       ELSE [stats EXCEPT ![wallet_id] =
                [@ EXCEPT !.by = IF @ = "absent" THEN t ELSE @,
                          !.avg_num = SumSeq(amounts),
                          !.avg_den = Len(amounts),
                          !.max_buy_sol = MaxSeq(amounts),
                          !.total_tx_count = Len(LastN(mine, PROFILE_WINDOW))]]

(***************************************************************************)
(* AlphaDecayTracker (alpha_decay.py).                                     *)
(***************************************************************************)
\* A faulty variant: the score is not clamped at 0.
update_alpha_score_unclamped(stats, t, wallet_id, new_copier_count) ==
    IF ~HasStats(stats, wallet_id, t) THEN stats
    ELSE LET new_avg == (3 * new_copier_count * AlphaScale
                            + 7 * stats[wallet_id].avg_copiers_per_trade) \div 10
         IN [stats EXCEPT ![wallet_id].avg_copiers_per_trade = new_avg,
                          ![wallet_id].alpha_score =
                              100 * AlphaScale - new_avg * ALPHA_DECAY_PER_COPIER]

\* update_alpha_score, lines 59-83: the wallet_stats table afterwards.
update_alpha_score(stats, t, wallet_id, new_copier_count) ==
    IF ~HasStats(stats, wallet_id, t) THEN stats
    ELSE LET old_avg == stats[wallet_id].avg_copiers_per_trade
             new_avg == (3 * new_copier_count * AlphaScale + 7 * old_avg) \div 10
             alpha == 100 * AlphaScale - new_avg * ALPHA_DECAY_PER_COPIER
         IN [stats EXCEPT ![wallet_id].avg_copiers_per_trade = new_avg,
                          ![wallet_id].alpha_score = IF alpha < 0 THEN 0 ELSE alpha]

(***************************************************************************)
(* PredictiveEngine (predictive_engine.py).                                *)
(***************************************************************************)
NewReload(wallet_id, tx_hash, amount, t, at) ==
    [wallet_id |-> wallet_id, tx_hash |-> tx_hash, amount |-> amount,
     followed_by_buy |-> "None", time_to_buy_minutes |-> -1, buy_tx_hash |-> 0,
     detected_at |-> at, resolved_at |-> -1, by |-> t]

\* detect_reload without the lookup of lines 29-34 (a faulty variant).
detect_reload_untracked(reloads, t, wallet_id, tx_hash, sol_change, at) ==
    IF sol_change < MIN_RELOAD_SOL THEN reloads
    ELSE Append(reloads, NewReload(wallet_id, tx_hash, sol_change, t, at))

\* detect_reload, lines 21-56: the reload_events table afterwards.
detect_reload(reloads, t, wallet_id, tx_hash, sol_change, at) ==
    IF sol_change < MIN_RELOAD_SOL THEN reloads
    ELSE IF \E i \in 1..Len(reloads) :
                reloads[i].by \in {"committed", t} /\ reloads[i].tx_hash = tx_hash
    THEN reloads
    ELSE Append(reloads, NewReload(wallet_id, tx_hash, sol_change, t, at))

\* update_prediction_stats, lines 114-148: the wallet_stats table afterwards,
\* and whether line 148 raised (format of avg_time = None).
update_prediction_stats(reloads, stats, t, wallet_id) ==
    LET resolved == SelectSeq(Visible(reloads, t),
                        LAMBDA r : r.wallet_id = wallet_id /\ r.followed_by_buy # "None")
        total == Len(resolved)
        withBuy == SelectSeq(resolved, LAMBDA r : r.followed_by_buy = "True")
        buys == Len(withBuy)
        timed == SelectSeq(withBuy, LAMBDA r : r.time_to_buy_minutes > 0)
        buy_times == [i \in 1..Len(timed) |-> timed[i].time_to_buy_minutes]
        avg_time == IF buy_times = <<>> THEN -1
                    ELSE SumSeq(buy_times) \div Len(buy_times)
    IN IF resolved = <<>> THEN [stats |-> stats, raised |-> FALSE]
       ELSE [stats |->
                IF HasStats(stats, wallet_id, t)
                THEN [stats EXCEPT ![wallet_id] =
                        [@ EXCEPT !.reload_buy_probability = (buys * 100) \div total,
                                  !.avg_time_to_buy_after_reload =
                                      IF avg_time > 0 THEN avg_time ELSE -1]]
                ELSE stats,
             raised |-> buy_times = <<>>]

\* A faulty variant of the selection: resolved reloads are selected too.
open_reloads_unfiltered(reloads, t, wallet_id, at) ==
    SetToSeq(Indices(reloads, LAMBDA r :
        /\ r.by \in {"committed", t}
        /\ r.wallet_id = wallet_id
        /\ r.detected_at >= at - PREDICTION_WINDOW_MINUTES))

\* A faulty variant of the selection: no cutoff on detected_at.
open_reloads_unbounded(reloads, t, wallet_id, at) ==
    SetToSeq(Indices(reloads, LAMBDA r :
        /\ r.by \in {"committed", t}
        /\ r.wallet_id = wallet_id
        /\ r.followed_by_buy = "None"))

\* A faulty variant of the selection: the open reloads of every wallet.
open_reloads_all_wallets(reloads, t, wallet_id, at) ==
    SetToSeq(Indices(reloads, LAMBDA r :
        /\ r.by \in {"committed", t}
        /\ r.followed_by_buy = "None"
        /\ r.detected_at >= at - PREDICTION_WINDOW_MINUTES))

\* The open reloads check_reload_resolution selects, lines 64-74.
open_reloads(reloads, t, wallet_id, at) ==
    SetToSeq(Indices(reloads, LAMBDA r :
        /\ r.by \in {"committed", t}
        /\ r.wallet_id = wallet_id
        /\ r.followed_by_buy = "None"
        /\ r.detected_at >= at - PREDICTION_WINDOW_MINUTES))

\* The loop of lines 76-90 over the selected reloads.
RECURSIVE resolve_loop(_, _, _, _, _, _, _)
resolve_loop(reloads, stats, idxs, t, wallet_id, buy_hash, at) ==
    IF idxs = <<>> THEN [reloads |-> reloads, stats |-> stats, raised |-> FALSE]
    ELSE LET i == Head(idxs)
             marked == [reloads EXCEPT ![i] =
                          [@ EXCEPT !.followed_by_buy = "True",
                                    !.time_to_buy_minutes = at - reloads[i].detected_at,
                                    !.buy_tx_hash = buy_hash,
                                    !.resolved_at = at]]
             ups == update_prediction_stats(marked, stats, t, wallet_id)
         IN IF ups.raised
            THEN [reloads |-> marked, stats |-> ups.stats, raised |-> TRUE]
            ELSE resolve_loop(marked, ups.stats, Tail(idxs), t, wallet_id, buy_hash, at)

\* check_reload_resolution, lines 58-90.
check_reload_resolution(reloads, stats, t, wallet_id, buy_hash, at) ==
    resolve_loop(reloads, stats, open_reloads(reloads, t, wallet_id, at),
                 t, wallet_id, buy_hash, at)

\* resolve_stale_reloads, lines 92-112: the reload_events table afterwards.
resolve_stale_reloads(reloads, t, at) ==
    [i \in 1..Len(reloads) |->
        IF /\ reloads[i].by \in {"committed", t}
           /\ reloads[i].followed_by_buy = "None"
           /\ reloads[i].detected_at < at - PREDICTION_WINDOW_MINUTES
        THEN [reloads[i] EXCEPT !.followed_by_buy = "False", !.resolved_at = at]
        ELSE reloads[i]]

(***************************************************************************)
(* The monitored wallets: ids 1..NumWallets, all active and on SOL.        *)
(***************************************************************************)
NumWallets == 2
Wallets == 1..NumWallets

\* Wallet.reputation_tier
reputation_tier(w) == IF w = 1 THEN "A" ELSE "C"

NewMoment(wallet_id, tx_hash, moment_type, token, severity, t, at) ==
    [wallet_id |-> wallet_id, tx_hash |-> tx_hash, moment_type |-> moment_type,
     token |-> token, severity |-> severity, detected_at |-> at, by |-> t,
     cluster_size |-> 0, confidence |-> 0]

(***************************************************************************)
(* CabalDetector (cabal_detector.py).                                      *)
(***************************************************************************)
funding_sources(links, t, wallet_id) ==
    {links[i].source_address : i \in
        Indices(links, LAMBDA l : l.by \in {"committed", t} /\ l.dest_wallet_id = wallet_id)}

\* A faulty variant: every other buyer counts as sharing a funding source,
\* and the result is not capped.
calculate_cluster_confidence_unchecked(links, t, wallet_id, other_wallet_ids) ==
    50 + Len(other_wallet_ids) * 15

\* _calculate_cluster_confidence, lines 117-150.
calculate_cluster_confidence(links, t, wallet_id, other_wallet_ids) ==
    LET my_sources == funding_sources(links, t, wallet_id)
        sharing == SelectSeq(other_wallet_ids,
                      LAMBDA o : my_sources \cap funding_sources(links, t, o) # {})
        confidence == 50 + Len(sharing) * 15
    IN IF other_wallet_ids = <<>> \/ my_sources = {} THEN 50
       ELSE IF confidence > 100 THEN 100 ELSE confidence

\* The rows the query of lines 60-75 returns.
other_buyers(txs, t, wallet_id, token_symbol, at) ==
    SelectSeq(Visible(txs, t), LAMBDA r :
        /\ r.tx_type \in {"BUY", "SWAP"}
        /\ r.token_symbol = token_symbol
        /\ r.timestamp >= at - CABAL_TIME_WINDOW_MINUTES
        /\ r.wallet_id # wallet_id)

\* detect_cluster_buy, lines 49-115: the moments table afterwards.
detect_cluster_buy(txs, links, ms, t, wallet_id, token_symbol, at) ==
    LET others == other_buyers(txs, t, wallet_id, token_symbol, at)
        ids == [i \in 1..Len(others) |-> others[i].wallet_id]
    IN IF token_symbol = "None" \/ token_symbol \in {"SOL", "USDC", "USDT"} THEN ms
       ELSE IF Len(others) >= MIN_CLUSTER_SIZE - 1
       THEN Append(ms, [NewMoment(wallet_id, 0, "CABAL", token_symbol, 10, t, at)
                          EXCEPT !.cluster_size = Len(others) + 1,
                                 !.confidence =
                                     calculate_cluster_confidence(links, t, wallet_id, ids)])
       ELSE ms

(***************************************************************************)
(* ContrarianEngine (contrarian_engine.py).                                *)
(***************************************************************************)
\* A faulty variant: the three tests are chained, so at most one signal is
\* returned.
analyze_token_activity_first_only(txs, t, token_symbol, at) ==
    LET activity == SelectSeq(Visible(txs, t), LAMBDA r :
                        /\ r.token_symbol = token_symbol
                        /\ r.timestamp >= at - CONTRARIAN_WINDOW_MINUTES
                        /\ r.tx_type \in {"BUY", "SWAP", "SELL"})
        c_buys == SelectSeq(activity, LAMBDA r :
                        r.tx_type \in {"BUY", "SWAP"} /\ reputation_tier(r.wallet_id) = "C")
        a_sells == SelectSeq(activity, LAMBDA r :
                        r.tx_type = "SELL" /\ reputation_tier(r.wallet_id) = "A")
    IN IF token_symbol \in {"None", "SOL", "USDC", "USDT"} THEN <<>>
       ELSE IF Len(c_buys) >= MIN_TIER_C_BUYERS THEN <<"SCAMMER_ACCUMULATION">>
       ELSE IF a_sells # <<>> /\ c_buys # <<>> THEN <<"SMART_MONEY_EXIT">>
       ELSE <<>>

\* analyze_token_activity, lines 29-117: the signal types, in order.
analyze_token_activity(txs, t, token_symbol, at) ==
    LET activity == SelectSeq(Visible(txs, t), LAMBDA r :
                        /\ r.token_symbol = token_symbol
                        /\ r.timestamp >= at - CONTRARIAN_WINDOW_MINUTES
                        /\ r.tx_type \in {"BUY", "SWAP", "SELL"})
        tier_buys(tier) == SelectSeq(activity, LAMBDA r :
                        r.tx_type \in {"BUY", "SWAP"} /\ reputation_tier(r.wallet_id) = tier)
        tier_sells(tier) == SelectSeq(activity, LAMBDA r :
                        r.tx_type = "SELL" /\ reputation_tier(r.wallet_id) = tier)
    IN IF token_symbol = "None" \/ token_symbol \in {"SOL", "USDC", "USDT"} THEN <<>>
       ELSE IF activity = <<>> THEN <<>>
       ELSE (IF Len(tier_buys("C")) >= MIN_TIER_C_BUYERS
             THEN <<"SCAMMER_ACCUMULATION">> ELSE <<>>)
         \o (IF tier_sells("A") # <<>> /\ tier_buys("C") # <<>>
             THEN <<"SMART_MONEY_EXIT">> ELSE <<>>)
         \o (IF tier_buys("C") # <<>> /\ tier_buys("A") = <<>> /\ tier_sells("A") = <<>>
             THEN <<"SCAMMER_ONLY">> ELSE <<>>)

\* check_for_contrarian_on_buy, lines 119-139: the moments table afterwards.
check_for_contrarian_on_buy(txs, ms, t, wallet_id, token_symbol, at) ==
    LET signals == analyze_token_activity(txs, t, token_symbol, at)
    IN ms \o [i \in 1..Len(signals) |->
                NewMoment(wallet_id, 0, "CONTRARIAN_" \o signals[i], token_symbol,
                          IF signals[i] = "SMART_MONEY_EXIT" THEN 10 ELSE 7, t, at)]

(***************************************************************************)
(* PatternEngine (pattern_engine.py).                                      *)
(***************************************************************************)
\* _register_moment, lines 110-121.
register_moment(ms, t, tx, m_type, severity, at) ==
    Append(ms, NewMoment(tx.wallet_id, tx.tx_hash, m_type, tx.token_symbol, severity, t, at))

\* The pattern checks of lines 27-97, after the profile update: the moments
\* table afterwards.
detect_patterns(txs, stats, ms, t, tx, at) ==
    LET mine == SelectSeq(Visible(txs, t), LAMBDA r : r.wallet_id = tx.wallet_id)
        returned == profile_amounts(txs, t, tx.wallet_id) # <<>>
        st == stats[tx.wallet_id]
        history == LastN(mine, 5)
        matches == SelectSeq(history, LAMBDA r :
                      /\ r.tx_hash # tx.tx_hash
                      /\ r.tx_type = "SWAP"
                      /\ r.token_symbol = tx.token_symbol)
        known == SelectSeq(mine, LAMBDA r :
                      r.token_address = tx.token_address /\ r.tx_hash # tx.tx_hash)
    IN IF /\ tx.amount > 0 /\ returned /\ st.avg_num > 0
          /\ tx.amount * st.avg_den >= 3 * st.avg_num
       THEN register_moment(ms, t, tx, "WHALE_MOVE", 9, at)
       ELSE IF /\ tx.amount > 0 /\ returned /\ st.avg_num > 0
               /\ tx.amount * st.avg_den >= 2 * st.avg_num
       THEN register_moment(ms, t, tx, "ABOVE_AVG", 6, at)
       ELSE IF tx.tx_type = "SWAP" /\ tx.token_symbol # "None" /\ 1 + Len(matches) >= 3
       THEN register_moment(ms, t, tx, "ACCUMULATION", 8, at)
       ELSE IF tx.tx_type = "SWAP" /\ tx.token_address # "None" /\ known = <<>>
       THEN register_moment(ms, t, tx, "NEW_TOKEN", 7, at)
       ELSE ms

(***************************************************************************)
(* The chain the fetcher reads.  Hash h is the h-th transaction confirmed  *)
(* on-chain; what it holds is fixed:                                       *)
(*   1  wallet 1 pays 1 SOL and gains token X    (BUY X)                   *)
(*   2  wallet 1 receives 6 SOL                  (TRANSFER, a reload)      *)
(*   3  wallet 2 pays 1 SOL and gains token X    (BUY X)                   *)
(*   4  wallet 2 pays 1 SOL and gains token X    (BUY X)                   *)
(*   5  wallet 1 gives up token X for 1 SOL      (SELL X)                  *)
(*   6  wallet 2 signs, no balance changes       (UNKNOWN)                 *)
(* and so on, cyclically.                                                  *)
(***************************************************************************)
NumHashes == 6
MaxSigs == 2
MaxScans == 2
MaxIdleCycles == 25

Hashes == 1..NumHashes

Template(h) == ((h - 1) % 6) + 1

tx_wallet(h) == IF Template(h) \in {1, 2, 5} THEN 1 ELSE 2

tx_raw(h) ==
    CASE Template(h) = 2 ->
            [fault |-> "none", solDiff |-> 6000, pre |-> <<>>, post |-> <<>>]
      [] Template(h) = 5 ->
            [fault |-> "none", solDiff |-> 1000,
             pre |-> <<[mint |-> "mX", amt |-> 5]>>, post |-> <<[mint |-> "mX", amt |-> 0]>>]
      [] Template(h) = 6 ->
            [fault |-> "none", solDiff |-> 0, pre |-> <<>>, post |-> <<>>]
      [] OTHER ->
            [fault |-> "none", solDiff |-> -1000,
             pre |-> <<>>, post |-> <<[mint |-> "mX", amt |-> 5]>>]

\* tx_resp.value.block_time: transaction h is confirmed in minute h.
block_time(h) == h

\* The newest-first list of at most n of the hashes in S.
RECURSIVE Newest(_, _)
Newest(S, n) ==
    IF S = {} \/ n = 0 THEN <<>>
    ELSE LET m == CHOOSE x \in S : \A y \in S : y <= x
         IN <<m>> \o Newest(S \ {m}, n - 1)

\* What get_signatures_for_address(pubkey, limit) may return for a wallet
\* (line 120): its newest signatures, newest first, as of the transaction
\* the answering RPC node has reached.  MaxSigs stands for the limit.
SigLists(w) ==
    {Newest({h \in 1..k : tx_wallet(h) = w}, MaxSigs) : k \in Hashes} \ {<<>>}

(***************************************************************************)
(* The ingestion tasks: "scan" is run_hourly_scan's scan_all_wallets,      *)
(* "poll" is poll_wallets.                                                 *)
(***************************************************************************)
Tasks == {"scan", "poll"}
Steps == {"profile", "reload", "resolve", "cabal", "contrarian", "sell", "pattern"}

NoEvent == Event("UNKNOWN", "None", "None", 0, 0)

\* scan_all_wallets lines 402-408: the statistics of a scan, all zero.
NoScanStats == [new_txs |-> 0, high |-> 0, medium |-> 0, low |-> 0, skipped |-> 0]

IdleTask(pc) ==
    [pc |-> pc, session |-> "closed", w |-> 0, sigs |-> <<>>, i |-> 0,
     ev |-> NoEvent, runs |-> 0, err |-> "none", err_hash |-> 0,
     stats |-> NoScanStats]

Sig(t) == task[t].sigs[task[t].i]

\* A session's rollback: the rows it flushed and did not commit are gone.
Rollback(rows, t) == SelectSeq(rows, LAMBDA r : r.by # t)

RollbackStats(stats, t) ==
    [w \in DOMAIN stats |-> IF stats[w].by = t THEN NoStats ELSE stats[w]]

\* A session's commit.
Commit(rows, t) ==
    [i \in 1..Len(rows) |-> IF rows[i].by = t THEN [rows[i] EXCEPT !.by = "committed"] ELSE rows[i]]

CommitStats(stats, t) ==
    [w \in DOMAIN stats |->
        IF stats[w].by = t THEN [stats[w] EXCEPT !.by = "committed"] ELSE stats[w]]

Ran(h, step) == [calls EXCEPT ![h][step] = @ + 1]

\* The detector steps that see a transaction before its profile update.
Observe(h, step) ==
    IF calls[h]["profile"] = 0 THEN unprofiled \cup {<<h, step>>} ELSE unprofiled

\* A faulty variant: the exception is caught nowhere and ends the task.
Raise_uncaught(t, reason, h) ==
    [task EXCEPT ![t].pc = "crashed", ![t].err = reason, ![t].err_hash = h]

\* check_wallet's "except Exception" (lines 385-387): log and return None.
Raise(t, reason, h) ==
    [task EXCEPT ![t].pc = "after_wallet", ![t].err = reason, ![t].err_hash = h]

\* The loop of line 128 moves on to the next signature; lines 146-149 will
\* set the db_* locals anew.
Continue(t) == [task EXCEPT ![t].pc = "exists", ![t].i = @ + 1, ![t].ev = NoEvent]

\* The scans begin when the chain's transactions are confirmed.
InitDb ==
    /\ now = NumHashes
    /\ transactions = <<>>
    /\ reload_events = <<>>
    /\ moments = <<>>
    /\ wallet_stats = [w \in Wallets |-> NoStats]
    /\ funding_links = <<>>
    /\ calls = [h \in Hashes |-> [s \in Steps |-> 0]]
    /\ unprofiled = {}
    /\ contrarian_signals = <<>>
    /\ copiers = <<>>
    /\ users = NoUsers

NoRaw == [fault |-> "none", solDiff |-> 0, pre |-> <<>>, post |-> <<>>]

Init ==
    /\ InitDb
    /\ cls_in = NoRaw
    /\ cls_out = <<>>
    /\ call_args = <<>>
    /\ call_result = <<>>
    /\ task = [t \in Tasks |-> IdleTask(IF t = "scan" THEN "idle" ELSE "off")]

\* scan_all_wallets lines 410-417, poll_wallets lines 100-104: a session is
\* opened and the active SOL wallets are read.
begin_scan(t) ==
    /\ task[t].pc = "idle"
    /\ task[t].runs < MaxScans
    /\ task' = [task EXCEPT ![t] = [IdleTask("wallet") EXCEPT
                    !.session = "open", !.w = 1, !.runs = task[t].runs + 1]]
    /\ UNCHANGED <<clsVars, now, dbVars, histVars>>

\* check_wallet lines 117-126: the signatures are fetched, then the session
\* is asked whether the wallet has history.
get_signatures(t) ==
    /\ task[t].pc = "wallet"
    /\ \/ task' = Raise(t, "sigs", 0)
       \/ task' = [task EXCEPT ![t].pc = "after_wallet", ![t].err = "none",
                                ![t].sigs = <<>>, ![t].i = 0]
       \/ \E s \in SigLists(task[t].w) :
            task' = IF task[t].session = "invalid"
                    THEN Raise(t, "db", 0)
                    ELSE [task EXCEPT ![t].pc = "exists", ![t].err = "none",
                                      ![t].sigs = s, ![t].i = 1]
    /\ UNCHANGED <<clsVars, now, dbVars, histVars>>

\* A faulty variant of the existence check: no row is ever found.
existing_never(rows, t, h) == FALSE

\* Lines 132-133: the session's select of the transaction with hash h.
existing(rows, t, h) ==
    \E r \in 1..Len(rows) : rows[r].by \in {"committed", t} /\ rows[r].tx_hash = h

\* Lines 128-134: the next signature, skipped when the session sees a
\* transaction with its hash.
check_exists(t) ==
    /\ task[t].pc = "exists"
    /\ task' = IF task[t].i > Len(task[t].sigs)
               THEN [task EXCEPT ![t].pc = "commit"]
               ELSE IF existing(transactions, t, Sig(t))
               THEN Continue(t)
               ELSE [task EXCEPT ![t].pc = "fetch"]
    /\ UNCHANGED <<clsVars, now, dbVars, histVars>>

\* Lines 137-302: the transaction is fetched and classified.
get_transaction(t) ==
    /\ task[t].pc = "fetch"
    /\ \/ task' = Raise(t, "fetch", Sig(t))
       \/ task' = Continue(t)
       \/ task' = [task EXCEPT ![t].pc = "insert", ![t].ev = classify(tx_raw(Sig(t)))]
    /\ UNCHANGED <<clsVars, now, dbVars, histVars>>

HasHash(rows, who, h) ==
    \E r \in 1..Len(rows) : rows[r].by \in who /\ rows[r].tx_hash = h

\* The INSERT of another session that waits for this session's row.
WaitsFor(u, t) ==
    /\ task[u].pc = "insert"
    /\ HasHash(transactions, {t}, Sig(u))

new_tx(t) ==
    [tx_hash |-> Sig(t), wallet_id |-> task[t].w, tx_type |-> task[t].ev.type,
     token_symbol |-> task[t].ev.symbol, token_address |-> task[t].ev.token_addr,
     amount |-> task[t].ev.amount, timestamp |-> block_time(Sig(t)), by |-> t]

\* Lines 304-318: session.add(new_tx) and flush.  tx_hash is unique: the
\* INSERT waits while another session holds an uncommitted row with the hash,
\* and fails (IntegrityError, or a deadlock between two waiting sessions) by
\* rolling the session back, which stays unusable.
insert_tx(t) ==
    /\ task[t].pc = "insert"
    /\ LET h == Sig(t)
           holders == {u \in Tasks \ {t} : HasHash(transactions, {u}, h)}
           deadlock == \E u \in holders : WaitsFor(u, t)
           fails == HasHash(transactions, {"committed", t}, h) \/ deadlock
       IN /\ holders = {} \/ deadlock
          /\ IF fails
             THEN /\ transactions' = Rollback(transactions, t)
                  /\ reload_events' = Rollback(reload_events, t)
                  /\ moments' = Rollback(moments, t)
                  /\ wallet_stats' = RollbackStats(wallet_stats, t)
                  /\ task' = [Raise(t, "db", h) EXCEPT ![t].session = "invalid"]
             ELSE /\ transactions' = Append(transactions, new_tx(t))
                  /\ UNCHANGED <<reload_events, moments, wallet_stats>>
                  /\ task' = [task EXCEPT ![t].pc =
                        CASE /\ task[t].ev.type = "TRANSFER"
                             /\ task[t].ev.symbol = "SOL"
                             /\ task[t].ev.sol_diff > 0 -> "reload"
                          [] task[t].ev.type \in {"BUY", "SWAP"} -> "resolve"
                          [] task[t].ev.type = "SELL" -> "sell"
                          [] OTHER -> "pattern"]
    /\ UNCHANGED <<clsVars, now, funding_links, histVars>>

\* Lines 324-329.
do_detect_reload(t) ==
    /\ task[t].pc = "reload"
    /\ reload_events' = detect_reload(reload_events, t, task[t].w, Sig(t),
                                      task[t].ev.sol_diff, now)
    /\ calls' = Ran(Sig(t), "reload")
    /\ unprofiled' = Observe(Sig(t), "reload")
    /\ UNCHANGED <<contrarian_signals, copiers, users>>
    /\ task' = [task EXCEPT ![t].pc = "pattern"]
    /\ UNCHANGED <<clsVars, now, transactions, moments, wallet_stats, funding_links>>

\* Lines 332-333; an exception of the predictive engine leaves check_wallet.
do_check_reload_resolution(t) ==
    /\ task[t].pc = "resolve"
    /\ LET res == check_reload_resolution(reload_events, wallet_stats, t, task[t].w,
                                          Sig(t), now)
       IN /\ reload_events' = res.reloads
          /\ wallet_stats' = res.stats
          /\ task' = IF res.raised THEN Raise(t, "detector", Sig(t))
                     ELSE [task EXCEPT ![t].pc = "cabal"]
    /\ calls' = Ran(Sig(t), "resolve")
    /\ unprofiled' = Observe(Sig(t), "resolve")
    /\ UNCHANGED <<contrarian_signals, copiers, users>>
    /\ UNCHANGED <<clsVars, now, transactions, moments, funding_links>>

\* Lines 335-340.
do_detect_cluster_buy(t) ==
    /\ task[t].pc = "cabal"
    /\ moments' = detect_cluster_buy(transactions, funding_links, moments, t, task[t].w,
                                     task[t].ev.symbol, now)
    /\ calls' = Ran(Sig(t), "cabal")
    /\ unprofiled' = Observe(Sig(t), "cabal")
    /\ UNCHANGED <<contrarian_signals, copiers, users>>
    /\ task' = [task EXCEPT ![t].pc = "contrarian"]
    /\ UNCHANGED <<clsVars, now, transactions, reload_events, wallet_stats, funding_links>>

\* Lines 342-348.
do_check_for_contrarian_on_buy(t) ==
    /\ task[t].pc = "contrarian"
    /\ moments' = check_for_contrarian_on_buy(transactions, moments, t, task[t].w,
                                              task[t].ev.symbol, now)
    /\ calls' = Ran(Sig(t), "contrarian")
    /\ unprofiled' = Observe(Sig(t), "contrarian")
    /\ UNCHANGED <<contrarian_signals, copiers, users>>
    /\ task' = [task EXCEPT ![t].pc = "pattern"]
    /\ UNCHANGED <<clsVars, now, transactions, reload_events, wallet_stats, funding_links>>

\* Lines 351-361: on a SELL the contrarian signals are computed and logged.
do_analyze_on_sell(t) ==
    /\ task[t].pc = "sell"
    /\ calls' = Ran(Sig(t), "sell")
    /\ unprofiled' = Observe(Sig(t), "sell")
    /\ UNCHANGED <<contrarian_signals, copiers, users>>
    /\ task' = [task EXCEPT ![t].pc = "pattern"]
    /\ UNCHANGED <<clsVars, now, dbVars>>

\* Lines 364-379: PatternEngine.analyze_behavior, which first updates the
\* wallet's profile (pattern_engine.py 23-25) and swallows its exceptions.
do_analyze_behavior(t) ==
    /\ task[t].pc = "pattern"
    /\ LET stats == update_wallet_stats(transactions, wallet_stats, t, task[t].w)
       IN /\ wallet_stats' = stats
          /\ moments' = detect_patterns(transactions, stats, moments, t, new_tx(t), now)
    /\ calls' = [calls EXCEPT ![Sig(t)]["profile"] = @ + 1, ![Sig(t)]["pattern"] = @ + 1]
    /\ task' = Continue(t)
    /\ UNCHANGED <<clsVars, now, transactions, reload_events, funding_links,
                   unprofiled, contrarian_signals, copiers, users>>

CommitAll(t) ==
    /\ transactions' = Commit(transactions, t)
    /\ reload_events' = Commit(reload_events, t)
    /\ moments' = Commit(moments, t)
    /\ wallet_stats' = CommitStats(wallet_stats, t)

\* Lines 382-383: the loop is over, session.commit().
commit_wallet(t) ==
    /\ task[t].pc = "commit"
    /\ CommitAll(t)
    /\ task' = [task EXCEPT ![t].pc = "after_wallet"]
    /\ UNCHANGED <<clsVars, now, funding_links, histVars>>

\* scan_all_wallets lines 419-431, poll_wallets lines 106-108: check_wallet
\* has returned and its locals are gone; the next wallet.
\* check_wallet's return value: a bare return at line 123, return None at
\* lines 383 and 387, and no other return statement.
check_wallet_return(t) == "None"

\* scan_all_wallets lines 420-431: the statistics after one wallet's
\* check_wallet returned importance.
count_importance(stats, importance) ==
    IF importance = "None" THEN stats
    ELSE LET counted == [stats EXCEPT !.new_txs = @ + 1]
         IN CASE importance = "HIGH" -> [counted EXCEPT !.high = @ + 1]
              [] importance = "MEDIUM" -> [counted EXCEPT !.medium = @ + 1]
              [] importance = "LOW" -> [counted EXCEPT !.low = @ + 1]
              [] OTHER -> [counted EXCEPT !.skipped = @ + 1]

next_wallet(t) ==
    /\ task[t].pc = "after_wallet"
    /\ LET left == [task[t] EXCEPT !.sigs = <<>>, !.i = 0, !.ev = NoEvent,
                                    !.err = "none", !.err_hash = 0,
                                    !.stats = IF t = "scan"
                                              THEN count_importance(@, check_wallet_return(t))
                                              ELSE @]
       IN task' = IF task[t].w < NumWallets
                  THEN [task EXCEPT ![t] = [left EXCEPT !.pc = "wallet", !.w = @ + 1]]
                  ELSE [task EXCEPT ![t] = [left EXCEPT !.pc = "end"]]
    /\ UNCHANGED <<clsVars, now, dbVars, histVars>>

\* scan_all_wallets lines 433-438: the final commit (which raises, and is
\* caught, on an unusable session) and the end of the session.
end_scan(t) ==
    /\ t = "scan"
    /\ task[t].pc = "end"
    /\ IF task[t].session = "invalid"
       THEN UNCHANGED <<transactions, reload_events, moments, wallet_stats>>
       ELSE CommitAll(t)
    /\ task' = [task EXCEPT ![t].pc = "done", ![t].session = "closed"]
    /\ UNCHANGED <<clsVars, now, funding_links, histVars>>

\* main lines 179-182: the scan loop sleeps SCAN_INTERVAL_SECONDS.  A longer
\* step stands for that many scans in which the fetcher returned no
\* signature, each of which changes nothing.
sleep(t) ==
    /\ t = "scan"
    /\ task[t].pc = "done"
    /\ task[t].runs < MaxScans
    /\ \E cycles \in {1, MaxIdleCycles} : now' = now + SCAN_INTERVAL_MINUTES * cycles
    /\ task' = [task EXCEPT ![t].pc = "idle"]
    /\ UNCHANGED <<clsVars, dbVars, histVars>>

\* poll_wallets lines 100-110: the session ends without a commit, so what it
\* still holds is rolled back; then 30 seconds of sleep.
end_poll(t) ==
    /\ t = "poll"
    /\ task[t].pc = "end"
    /\ transactions' = Rollback(transactions, t)
    /\ reload_events' = Rollback(reload_events, t)
    /\ moments' = Rollback(moments, t)
    /\ wallet_stats' = RollbackStats(wallet_stats, t)
    /\ task' = [task EXCEPT ![t].pc = "idle", ![t].session = "closed"]
    /\ UNCHANGED <<clsVars, now, funding_links, histVars>>

check_wallet(t) ==
    \/ get_signatures(t)
    \/ check_exists(t)
    \/ get_transaction(t)
    \/ insert_tx(t)
    \/ do_detect_reload(t)
    \/ do_check_reload_resolution(t)
    \/ do_detect_cluster_buy(t)
    \/ do_check_for_contrarian_on_buy(t)
    \/ do_analyze_on_sell(t)
    \/ do_analyze_behavior(t)
    \/ commit_wallet(t)

scan_all_wallets ==
    \/ begin_scan("scan")
    \/ check_wallet("scan")
    \/ next_wallet("scan")
    \/ end_scan("scan")
    \/ sleep("scan")

poll_wallets ==
    \/ begin_scan("poll")
    \/ check_wallet("poll")
    \/ next_wallet("poll")
    \/ end_poll("poll")

\* The program as main.py runs it: the scan loop alone.
Next == scan_all_wallets

Spec == Init /\ [][Next]_vars

\* SolanaTracker.start (lines 440-444): the polling task, here in its last
\* pass and about to check the last wallet, next to the last scan of the
\* scan loop, on one database.
InitConc ==
    /\ InitDb
    /\ cls_in = NoRaw
    /\ cls_out = <<>>
    /\ call_args = <<>>
    /\ call_result = <<>>
    /\ task = [t \in Tasks |->
                IF t = "scan"
                THEN [IdleTask("idle") EXCEPT !.runs = MaxScans - 1]
                ELSE [IdleTask("wallet") EXCEPT !.session = "open", !.w = NumWallets,
                                                !.runs = MaxScans]]

NextConc ==
    \/ begin_scan("scan")
    \/ check_wallet("scan")
    \/ next_wallet("scan")
    \/ end_scan("scan")
    \/ poll_wallets

SpecConc == InitConc /\ [][NextConc]_vars

(***************************************************************************)
(* The classification alone: any raw transaction within the bounds is      *)
(* handed to lines 142-285.                                                *)
(***************************************************************************)
InitClassify ==
    /\ InitDb
    /\ cls_in \in RawTxs
    /\ cls_out = <<>>
    /\ call_args = <<>>
    /\ call_result = <<>>
    /\ task = [t \in Tasks |-> IdleTask("off")]

do_classify ==
    /\ cls_out = <<>>
    /\ cls_out' = <<classify(cls_in)>>
    /\ UNCHANGED <<cls_in, call_args, call_result, now, dbVars, task, histVars>>

NextClassify == do_classify

SpecClassify == InitClassify /\ [][NextClassify]_vars

(***************************************************************************)
(* Classification properties.                                              *)
(***************************************************************************)
\* C5: for every balance-delta input the classification yields exactly one
\* kind of BUY, SELL, SWAP, TRANSFER, UNKNOWN with a single asset and amount:
\* UNKNOWN carries no asset and amount 0, every other kind one asset symbol
\* and a positive amount.
C5_ClassificationTotal ==
    cls_out # <<>> =>
        /\ Len(cls_out) = 1
        /\ cls_out[1].type \in Kinds
        /\ cls_out[1].amount \in Nat
        /\ cls_out[1].type = "UNKNOWN" => cls_out[1].symbol = "None" /\ cls_out[1].amount = 0
        /\ cls_out[1].type # "UNKNOWN" => cls_out[1].symbol # "None" /\ cls_out[1].amount > 0

\* A transaction that gains one non-stable token and loses another, with
\* no stable leg, has been classified as a SWAP.
C5_Witness ==
    /\ cls_out # <<>>
    /\ cls_in.fault = "none"
    /\ Len(cls_in.post) = 2
    /\ cls_out[1].type = "SWAP"

\* Whether every token balance change of the raw transaction beyond dust is
\* in a stable asset, by the symbols the chain holds.
StableOnly(raw) ==
    /\ FilterStable(token_changes(raw.pre, raw.post, FALSE, TRUE), FALSE) = <<>>
    /\ FilterStable(token_changes(raw.pre, raw.post, FALSE, FALSE), FALSE) = <<>>

\* C6: a transaction whose only balance changes beyond dust are in stable
\* assets is never classified as BUY or SELL.
C6_StableNeverBuySell ==
    (cls_out # <<>> /\ StableOnly(cls_in)) => cls_out[1].type \in {"TRANSFER", "UNKNOWN"}

(***************************************************************************)
(* Ingestion properties.                                                   *)
(***************************************************************************)
RowsWithHash(h) == {r \in 1..Len(transactions) : transactions[r].tx_hash = h}

\* C1: however often the scans present a transaction hash, at most one
\* Transaction row holds it, exactly one once a detector or the profile
\* update has run for it, each of these runs at most once for the hash, and
\* the duplicate is no error of the database.
C1_IdempotentByHash ==
    /\ \A h \in Hashes :
          /\ Cardinality(RowsWithHash(h)) <= 1
          /\ \A s \in Steps : calls[h][s] <= 1
          /\ (\E s \in Steps : calls[h][s] = 1) => Cardinality(RowsWithHash(h)) = 1
    /\ \A t \in Tasks : task[t].err # "db"

\* The second scan has just skipped the first signature of wallet 1, which
\* the first scan stored, committed and analysed.
C1_Witness ==
    /\ task["scan"].runs = 2
    /\ task["scan"].w = 1
    /\ task["scan"].pc = "exists"
    /\ task["scan"].i = 2
    /\ HasHash(transactions, {"committed"}, task["scan"].sigs[1])
    /\ calls[task["scan"].sigs[1]]["pattern"] = 1

\* C2: when two tasks present the same hash, one row is stored and the
\* other task's check_wallet is not left by a database error.
C2_LoserNoError ==
    /\ \A h \in Hashes : Cardinality(RowsWithHash(h)) <= 1
    /\ \A t \in Tasks : task[t].err # "db"

\* C4: when a scan that began after a reload's prediction window had
\* elapsed is over, the reload has been resolved.
C4_StaleReloadsSwept ==
    task["scan"].pc = "done" =>
        \A r \in 1..Len(reload_events) :
            reload_events[r].detected_at + PREDICTION_WINDOW_MINUTES < now
                => reload_events[r].followed_by_buy # "None"

\* C7: check_wallet is not left by a fetch error while signatures of the
\* wallet remain to be processed.
C7_FetchErrorSkipsOne ==
    \A t \in Tasks :
        (task[t].pc = "after_wallet" /\ task[t].err = "fetch")
            => task[t].i >= Len(task[t].sigs)

\* C8: when a detector has raised for a transaction, the other detectors
\* have run for it and no signature of the wallet is left unprocessed.
C8_DetectorErrorIsolated ==
    \A t \in Tasks :
        (task[t].pc = "after_wallet" /\ task[t].err = "detector")
            => /\ calls[task[t].err_hash]["cabal"] = 1
               /\ calls[task[t].err_hash]["contrarian"] = 1
               /\ calls[task[t].err_hash]["pattern"] = 1
               /\ task[t].i >= Len(task[t].sigs)

\* C9: no detector (reload resolution, cluster detection, contrarian
\* analysis) observes a BUY/SWAP before the profile update for it.
C9_ProfileBeforeDetectors ==
    \A h \in Hashes : \A d \in {"resolve", "cabal", "contrarian"} :
        <<h, d>> \notin unprofiled

\* The time window of a moment kind, where the code names one.
MomentWindow(kind) ==
    IF kind = "CABAL" THEN CABAL_TIME_WINDOW_MINUTES ELSE CONTRARIAN_WINDOW_MINUTES

\* C10: for any (wallet, kind, asset), no two CABAL or CONTRARIAN moments
\* are stored within the kind's window.
C10_MomentsDeduplicated ==
    \A i, j \in 1..Len(moments) :
        (/\ i < j
         /\ moments[i].moment_type \notin {"WHALE_MOVE", "ABOVE_AVG", "ACCUMULATION", "NEW_TOKEN"}
         /\ moments[i].wallet_id = moments[j].wallet_id
         /\ moments[i].moment_type = moments[j].moment_type
         /\ moments[i].token = moments[j].token)
            => moments[j].detected_at - moments[i].detected_at
                    > MomentWindow(moments[i].moment_type)

(***************************************************************************)
(* The predictive engine alone: detect_reload, check_reload_resolution and *)
(* resolve_stale_reloads are called on one session in any order, with any  *)
(* wallet, hash and amount, while the clock advances by a minute or by     *)
(* more than the prediction window.  The hash of a reload is one already   *)
(* tracked or the next unused one.                                         *)
(***************************************************************************)
MaxReloads == 2
MaxLongTicks == 1

LongTick == PREDICTION_WINDOW_MINUTES + 1

BuyHashes == {MaxReloads + 1, MaxReloads + 2}

\* Before the calls begin wallet 1 has bought once and has its profile.
FirstBuy ==
    [tx_hash |-> MaxReloads + 1, wallet_id |-> 1, tx_type |-> "BUY", token_symbol |-> "X",
     token_address |-> "mX", amount |-> 5, timestamp |-> 0, by |-> "committed"]

InitReload ==
    /\ now = 0
    /\ transactions = <<FirstBuy>>
    /\ reload_events = <<>>
    /\ moments = <<>>
    /\ wallet_stats = CommitStats(update_wallet_stats(<<FirstBuy>>,
                                       [w \in Wallets |-> NoStats], "scan", 1), "scan")
    /\ funding_links = <<>>
    /\ calls = [h \in Hashes |-> [s \in Steps |-> 0]]
    /\ unprofiled = {}
    /\ contrarian_signals = <<>>
    /\ copiers = <<>>
    /\ users = NoUsers
    /\ cls_in = NoRaw
    /\ cls_out = <<>>
    /\ call_args = <<>>
    /\ call_result = <<>>
    /\ task = [t \in Tasks |-> IdleTask("off")]

call_detect_reload ==
    /\ Len(reload_events) < MaxReloads
    /\ \E w \in Wallets, h \in 1..(Len(reload_events) + 1),
          sol_change \in {MIN_RELOAD_SOL - 1, MIN_RELOAD_SOL} :
          reload_events' = detect_reload(reload_events, "scan", w, h, sol_change, now)
    /\ UNCHANGED <<clsVars, now, transactions, moments, wallet_stats, funding_links,
                   task, histVars>>

call_check_reload_resolution ==
    /\ \E w \in Wallets, h \in BuyHashes :
          LET res == check_reload_resolution(reload_events, wallet_stats, "scan", w, h, now)
          IN /\ reload_events' = res.reloads
             /\ wallet_stats' = res.stats
    /\ UNCHANGED <<clsVars, now, transactions, moments, funding_links, task, histVars>>

call_resolve_stale_reloads ==
    /\ reload_events' = resolve_stale_reloads(reload_events, "scan", now)
    /\ UNCHANGED <<clsVars, now, transactions, moments, wallet_stats, funding_links,
                   task, histVars>>

tick ==
    /\ \E d \in {1, LongTick} :
          /\ d = 1 => now % LongTick = 0
          /\ now + d <= MaxLongTicks * LongTick + 1
          /\ now' = now + d
    /\ UNCHANGED <<clsVars, dbVars, task, histVars>>

NextReload ==
    \/ call_detect_reload
    \/ call_check_reload_resolution
    \/ call_resolve_stale_reloads
    \/ tick

SpecReload == InitReload /\ [][NextReload]_vars

\* C3: once a ReloadEvent is resolved (followed_by_buy True or False), no
\* call of detect_reload, check_reload_resolution or resolve_stale_reloads
\* changes its followed_by_buy, time_to_buy_minutes, buy_tx_hash or
\* resolved_at.
C3_ResolvedOnce ==
    [][\A r \in 1..Len(reload_events) :
          reload_events[r].followed_by_buy # "None" =>
              /\ r <= Len(reload_events')
              /\ reload_events'[r].tx_hash = reload_events[r].tx_hash
              /\ reload_events'[r].followed_by_buy = reload_events[r].followed_by_buy
              /\ reload_events'[r].time_to_buy_minutes = reload_events[r].time_to_buy_minutes
              /\ reload_events'[r].buy_tx_hash = reload_events[r].buy_tx_hash
              /\ reload_events'[r].resolved_at = reload_events[r].resolved_at]_vars

\* A wallet's reload was resolved by one buy, and a later buy of the same
\* wallet has resolved a second reload and left the first as it was.
C3_Witness ==
    \E q, r \in 1..Len(reload_events) :
        /\ reload_events[q].wallet_id = reload_events[r].wallet_id
        /\ reload_events[q].followed_by_buy = "True"
        /\ reload_events[r].followed_by_buy = "True"
        /\ reload_events[q].resolved_at < reload_events[r].resolved_at
        /\ reload_events[q].detected_at >= reload_events[r].resolved_at - PREDICTION_WINDOW_MINUTES
        /\ reload_events[q].buy_tx_hash # reload_events[r].buy_tx_hash

(***************************************************************************)
(* Reload resolution and on-chain time.                                    *)
(***************************************************************************)
\* C11: a ReloadEvent resolved with a buy names a BUY/SWAP of the same
\* wallet whose on-chain time is not earlier than the funding transaction's
\* and at most 120 minutes after it.
C11_ResolvedBySubsequentBuy ==
    \A r \in 1..Len(reload_events) :
        reload_events[r].followed_by_buy = "True" =>
            /\ tx_wallet(reload_events[r].buy_tx_hash) = reload_events[r].wallet_id
            /\ block_time(reload_events[r].buy_tx_hash) >= block_time(reload_events[r].tx_hash)
            /\ block_time(reload_events[r].buy_tx_hash)
                    <= block_time(reload_events[r].tx_hash) + PREDICTION_WINDOW_MINUTES

(***************************************************************************)
(* Malformed balance data.                                                 *)
(***************************************************************************)
\* Parsing raised in the native balances (the try of lines 162-178) or in
\* the token balances (caught at line 284).
ParseFails(raw) == raw.fault \in {"sol_err", "tok_err"}

\* C12: when parsing the balance data of a transaction fails at any step,
\* the classified event has kind UNKNOWN.
C12_MalformedIsUnknown ==
    (cls_out # <<>> /\ ParseFails(cls_in)) => cls_out[1].type = "UNKNOWN"

(***************************************************************************)
(* UNKNOWN events.                                                         *)
(***************************************************************************)
\* C13: for a stored Transaction of kind UNKNOWN no detector has been
\* invoked (reload predictor, cluster detector, contrarian engine, pattern
\* engine), and no Moment and no ReloadEvent names it.
C13_UnknownFeedsNoDetector ==
    \A r \in 1..Len(transactions) :
        transactions[r].tx_type = "UNKNOWN" =>
            /\ \A s \in Steps : calls[transactions[r].tx_hash][s] = 0
            /\ \A m \in 1..Len(moments) : moments[m].tx_hash # transactions[r].tx_hash
            /\ \A e \in 1..Len(reload_events) :
                    reload_events[e].tx_hash # transactions[r].tx_hash

(***************************************************************************)
(* The scan loop and failed runs.                                          *)
(***************************************************************************)
\* The positions of a task inside its loop.
LoopPcs ==
    {"off", "idle", "wallet", "exists", "fetch", "insert", "reload", "resolve", "cabal",
     "contrarian", "sell", "pattern", "commit", "after_wallet", "end", "done"}

MaxPriorBuys == 4

CabalWallets == {1, 2, 3}
Sources == {"F1", "F2"}

BuyRow(h, w, token, at, by) ==
    [tx_hash |-> h, wallet_id |-> w, tx_type |-> "BUY", token_symbol |-> token,
     token_address |-> "m" \o token, amount |-> 5, timestamp |-> at, by |-> by]

\* Wallet w's stored buys: n recent ones and o old ones.
BuysOf(w, n, o, at) ==
    [j \in 1..n |-> BuyRow(10 * w + j, w, "Z", at - 5, "committed")]
    \o [j \in 1..o |-> BuyRow(10 * w, w, "Z", at - CABAL_TIME_WINDOW_MINUTES - 1,
                                "committed")]

RECURSIVE LinksOf(_, _)
LinksOf(funded, pairs) ==
    IF pairs = {} THEN <<>>
    ELSE LET p == CHOOSE x \in pairs : TRUE
         IN IF p[2] \in funded[p[1]]
            THEN <<[source_address |-> p[2], dest_wallet_id |-> p[1], by |-> "committed"]>>
                 \o LinksOf(funded, pairs \ {p})
            ELSE LinksOf(funded, pairs \ {p})

CabalStart == CABAL_TIME_WINDOW_MINUTES + 10

InitCabal ==
    /\ now = CabalStart
    /\ \E recent \in [CabalWallets -> 0..MaxPriorBuys], old \in [CabalWallets -> 0..1] :
          transactions = BuysOf(1, recent[1], old[1], CabalStart)
                         \o BuysOf(2, recent[2], old[2], CabalStart)
                         \o BuysOf(3, recent[3], old[3], CabalStart)
    /\ \E funded \in [CabalWallets -> SUBSET Sources] :
          funding_links = LinksOf(funded, CabalWallets \X Sources)
    /\ reload_events = <<>>
    /\ moments = <<>>
    /\ wallet_stats = [w \in Wallets |-> NoStats]
    /\ calls = [h \in Hashes |-> [s \in Steps |-> 0]]
    /\ unprofiled = {}
    /\ contrarian_signals = <<>>
    /\ copiers = <<>>
    /\ users = NoUsers
    /\ cls_in = NoRaw
    /\ cls_out = <<>>
    /\ call_args = <<>>
    /\ call_result = <<>>
    /\ task = [t \in Tasks |-> IdleTask("off")]

\* sol_tracker.py 304-318 and 335-340 for one BUY: the row is flushed, then
\* the cluster detection runs.
ingest_buy ==
    /\ \A i \in 1..Len(transactions) : transactions[i].by = "committed"
    /\ \E w \in CabalWallets, token \in {"Z", "Y"} :
          LET txs == Append(transactions, BuyRow(0, w, token, now, "scan"))
          IN /\ transactions' = txs
             /\ moments' = detect_cluster_buy(txs, funding_links, moments, "scan", w,
                                              token, now)
    /\ UNCHANGED <<clsVars, now, reload_events, wallet_stats, funding_links, task, histVars>>

NextCabal == ingest_buy

SpecCabal == InitCabal /\ [][NextCabal]_vars

\* The BUY that ingest_buy stored, if it has run.
Ingested == transactions # <<>> /\ transactions[Len(transactions)].by = "scan"
Trigger == transactions[Len(transactions)]

\* The other wallets with a BUY of the trigger's token inside the window.
ClusterMates ==
    {transactions[i].wallet_id : i \in
        {j \in 1..Len(transactions) :
            /\ transactions[j].wallet_id # Trigger.wallet_id
            /\ transactions[j].token_symbol = Trigger.token_symbol
            /\ transactions[j].tx_type \in {"BUY", "SWAP"}
            /\ transactions[j].timestamp >= now - CABAL_TIME_WINDOW_MINUTES}}

SourcesOf(w) ==
    {funding_links[i].source_address : i \in
        {j \in 1..Len(funding_links) : funding_links[j].dest_wallet_id = w}}

\* C15: a CABAL moment emitted by detect_cluster_buy has a confidence within
\* 0..100; the confidence is exactly 50 when no other wallet of the cluster
\* shares a funding source with the triggering wallet; and when no other
\* wallet bought the token inside the window no moment is emitted.
C15_ConfidenceBounds ==
    Ingested =>
        /\ \A m \in 1..Len(moments) :
              /\ moments[m].moment_type = "CABAL"
              /\ moments[m].confidence \in 0..100
              /\ moments[m].cluster_size >= 2
              /\ (\A o \in ClusterMates : SourcesOf(o) \cap SourcesOf(Trigger.wallet_id) = {})
                    => moments[m].confidence = 50
        /\ ClusterMates = {} => moments = <<>>

\* Four recent buys of a wallet funded by the trigger's source reach the cap;
\* the token is Z.
C15_Witness ==
    /\ Ingested
    /\ moments # <<>>
    /\ moments[1].confidence = 100
    /\ moments[1].cluster_size = 5
    /\ Cardinality(ClusterMates) = 1

\* C16: when three distinct wallets each bought Z once within ten minutes and
\* exactly two of them share a funding source, the ingestion of the last of
\* the three buys emits a CABAL moment with cluster size 3 and confidence 65,
\* whichever wallet's buy is the last.
C16_ClusterOfThree ==
    (/\ Ingested
     /\ Trigger.token_symbol = "Z"
     /\ Len(transactions) = 3
     /\ Cardinality(ClusterMates) = 2
     /\ \A i \in 1..3 : transactions[i].timestamp >= now - 10
     /\ Cardinality({pr \in CabalWallets \X CabalWallets :
                        pr[1] < pr[2] /\ SourcesOf(pr[1]) \cap SourcesOf(pr[2]) # {}}) = 1)
    => \E m \in 1..Len(moments) :
          /\ moments[m].moment_type = "CABAL"
          /\ moments[m].cluster_size = 3
          /\ moments[m].confidence = 65

(***************************************************************************)
(* The contrarian engine alone: trades of token W by a tier-A wallet (1)   *)
(* and two tier-C wallets (2, 3) are stored, recent or older than the      *)
(* window, and one more trade is ingested: a BUY goes through              *)
(* check_for_contrarian_on_buy, a SELL through analyze_token_activity.     *)
(***************************************************************************)
MaxPriorTrades == 2

TradeRow(h, w, type, token, at, by) ==
    [tx_hash |-> h, wallet_id |-> w, tx_type |-> type, token_symbol |-> token,
     token_address |-> "m" \o token, amount |-> 5, timestamp |-> at, by |-> by]

\* Wallet w's stored trades of W: b recent buys, s recent sells, o old buys.
TradesOf(w, b, s, o, at) ==
    [j \in 1..b |-> TradeRow(10 * w + j, w, "BUY", "W", at - 5, "committed")]
    \o [j \in 1..s |-> TradeRow(10 * w + 8, w, "SELL", "W", at - 10, "committed")]
    \o [j \in 1..o |-> TradeRow(10 * w + 9, w, "BUY", "W",
                                at - CONTRARIAN_WINDOW_MINUTES - 1, "committed")]

ContrarianStart == CONTRARIAN_WINDOW_MINUTES + 10

InitContrarian ==
    /\ now = ContrarianStart
    /\ \E b \in [CabalWallets -> 0..MaxPriorTrades], s \in [CabalWallets -> 0..1],
          o \in [CabalWallets -> 0..1] :
          transactions = TradesOf(1, b[1], s[1], o[1], ContrarianStart)
                         \o TradesOf(2, b[2], s[2], o[2], ContrarianStart)
                         \o TradesOf(3, b[3], s[3], o[3], ContrarianStart)
    /\ funding_links = <<>>
    /\ reload_events = <<>>
    /\ moments = <<>>
    /\ wallet_stats = [w \in Wallets |-> NoStats]
    /\ calls = [h \in Hashes |-> [s \in Steps |-> 0]]
    /\ unprofiled = {}
    /\ contrarian_signals = <<>>
    /\ copiers = <<>>
    /\ users = NoUsers
    /\ cls_in = NoRaw
    /\ cls_out = <<>>
    /\ call_args = <<>>
    /\ call_result = <<>>
    /\ task = [t \in Tasks |-> IdleTask("off")]

\* sol_tracker.py 304-318 and 342-348 for one BUY.
ingest_contrarian_buy ==
    /\ \A i \in 1..Len(transactions) : transactions[i].by = "committed"
    /\ \E w \in CabalWallets, token \in {"W", "Y"} :
          LET txs == Append(transactions, TradeRow(0, w, "BUY", token, now, "scan"))
          IN /\ transactions' = txs
             /\ moments' = check_for_contrarian_on_buy(txs, moments, "scan", w, token, now)
             /\ contrarian_signals' = analyze_token_activity(txs, "scan", token, now)
    /\ UNCHANGED <<clsVars, now, reload_events, wallet_stats, funding_links, task,
                   calls, unprofiled, copiers, users>>

\* sol_tracker.py 304-318 and 351-361 for one SELL.
ingest_contrarian_sell ==
    /\ \A i \in 1..Len(transactions) : transactions[i].by = "committed"
    /\ \E w \in CabalWallets, token \in {"W", "Y"} :
          LET txs == Append(transactions, TradeRow(0, w, "SELL", token, now, "scan"))
          IN /\ transactions' = txs
             /\ contrarian_signals' = analyze_token_activity(txs, "scan", token, now)
    /\ UNCHANGED <<clsVars, now, reload_events, moments, wallet_stats, funding_links, task,
                   calls, unprofiled, copiers, users>>

NextContrarian == ingest_contrarian_buy \/ ingest_contrarian_sell

SpecContrarian == InitContrarian /\ [][NextContrarian]_vars

\* The wallets of a tier with a trade of the given kinds of the trigger's
\* token inside the contrarian window.
TierTraders(tier, kinds) ==
    {transactions[i].wallet_id : i \in
        {j \in 1..Len(transactions) :
            /\ reputation_tier(transactions[j].wallet_id) = tier
            /\ transactions[j].tx_type \in kinds
            /\ transactions[j].token_symbol = Trigger.token_symbol
            /\ transactions[j].timestamp >= now - CONTRARIAN_WINDOW_MINUTES}}

Emitted == {contrarian_signals[i] : i \in 1..Len(contrarian_signals)}

\* C17: the analysis of a token emits SCAMMER_ACCUMULATION whenever two
\* tier-C wallets bought it inside the 60-minute window, and SMART_MONEY_EXIT
\* whenever a tier-A wallet sold it and a tier-C wallet bought it inside the
\* window; with a tier-A SELL and two tier-C BUYs it emits both.
C17_ContrarianSignals ==
    Ingested =>
        /\ Cardinality(TierTraders("C", {"BUY", "SWAP"})) >= 2
              => "SCAMMER_ACCUMULATION" \in Emitted
        /\ (TierTraders("A", {"SELL"}) # {} /\ TierTraders("C", {"BUY", "SWAP"}) # {})
              => "SMART_MONEY_EXIT" \in Emitted

\* The scenario, triggered by the tier-A SELL.
C17_Witness ==
    /\ Ingested
    /\ Trigger.tx_type = "SELL" /\ Trigger.wallet_id = 1 /\ Trigger.token_symbol = "W"
    /\ TierTraders("C", {"BUY", "SWAP"}) = {2, 3}
    /\ Len(transactions) = 3
    /\ "SCAMMER_ACCUMULATION" \in Emitted /\ "SMART_MONEY_EXIT" \in Emitted

\* C18: every signal that qualifies when a trade is ingested, a SELL as well
\* as a BUY or SWAP, is stored as a moment of type CONTRARIAN_<signal>.
C18_SignalsPersisted ==
    Ingested =>
        \A sig \in Emitted :
            \E m \in 1..Len(moments) :
                /\ moments[m].moment_type = "CONTRARIAN_" \o sig
                /\ moments[m].token = Trigger.token_symbol

(***************************************************************************)
(* The alpha decay tracker alone: wallet 1 has a profile row, wallet 2 has *)
(* none, and update_alpha_score is called with copier counts.              *)
(***************************************************************************)
CopierCounts == {0, 1, 7, MaxCopiers}

InitAlpha == InitReload

call_update_alpha_score ==
    /\ Len(copiers) < MaxAlphaUpdates
    /\ \E w \in Wallets, n \in CopierCounts :
          /\ wallet_stats' = update_alpha_score(wallet_stats, "scan", w, n)
          /\ copiers' = Append(copiers, <<w, n>>)
    /\ UNCHANGED <<clsVars, now, transactions, reload_events, moments, funding_links,
                   task, calls, unprofiled, contrarian_signals, users>>

NextAlpha == call_update_alpha_score

SpecAlpha == InitAlpha /\ [][NextAlpha]_vars

\* The moving average (0.3 new, 0.7 old, from 0) of the counts passed for
\* wallet w, in units of 1 / AlphaScale.
RECURSIVE Ema(_, _)
Ema(counts, w) ==
    IF counts = <<>> THEN 0
    ELSE LET prev == Ema(SubSeq(counts, 1, Len(counts) - 1), w)
             last == counts[Len(counts)]
         IN IF last[1] = w THEN (3 * last[2] * AlphaScale + 7 * prev) \div 10 ELSE prev

NonStableChanges(gained) ==
    FilterStable(token_changes(cls_in.pre, cls_in.post, cls_in.fault = "meta_fail", gained),
                 FALSE)

\* C20: when a transaction gains several non-stable tokens (or loses
\* several), the amount of the classified event is the largest of their
\* absolute deltas, in whatever order the balances are listed.
C20_PrimaryIsLargest ==
    (cls_out # <<>> /\ cls_in.fault \in {"none", "meta_fail"}) =>
        /\ (cls_out[1].type \in {"BUY", "SWAP"} /\ Len(NonStableChanges(TRUE)) >= 2)
              => \A i \in 1..Len(NonStableChanges(TRUE)) :
                     NonStableChanges(TRUE)[i].amt <= cls_out[1].amount
        /\ (cls_out[1].type = "SELL" /\ Len(NonStableChanges(FALSE)) >= 2)
              => \A i \in 1..Len(NonStableChanges(FALSE)) :
                     NonStableChanges(FALSE)[i].amt <= cls_out[1].amount

(***************************************************************************)
(* The profiler alone: events with some amount are stored for the wallets  *)
(* and update_wallet_stats is called at any moment, several times in a row *)
(* as well.                                                                *)
(***************************************************************************)
MaxProfileEvents == 3

ProfileAmounts == {0, 2, 5}

InitProfile ==
    /\ InitDb
    /\ cls_in = NoRaw
    /\ cls_out = <<>>
    /\ call_args = <<>>
    /\ call_result = <<>>
    /\ task = [t \in Tasks |-> IdleTask("off")]

\* sol_tracker.py 304-318: a new Transaction row is flushed.
store_event ==
    /\ Len(transactions) < MaxProfileEvents
    /\ \E w \in Wallets, amt \in ProfileAmounts :
          transactions' = Append(transactions,
              [TradeRow(Len(transactions) + 1, w, "BUY", "X", now, "scan")
                  EXCEPT !.amount = amt])
    /\ UNCHANGED <<clsVars, now, reload_events, moments, wallet_stats, funding_links,
                   task, histVars>>

call_update_wallet_stats ==
    /\ \E w \in Wallets :
          wallet_stats' = update_wallet_stats(transactions, wallet_stats, "scan", w)
    /\ UNCHANGED <<clsVars, now, transactions, reload_events, moments, funding_links,
                   task, histVars>>

NextProfile == store_event \/ call_update_wallet_stats

SpecProfile == InitProfile /\ [][NextProfile]_vars

\* C21: after a call of update_wallet_stats, a further call for any wallet
\* with no event stored in between leaves every profile row as it is: the
\* same average, maximum and count, and no row more.
C21_ProfileIdempotent ==
    [][transactions' = transactions =>
          \A w \in Wallets :
              \/ wallet_stats'[w] = wallet_stats[w]
              \/ /\ update_wallet_stats(transactions', wallet_stats', "scan", w)
                        = wallet_stats'
                 /\ \A v \in Wallets :
                        update_wallet_stats(transactions', wallet_stats', "scan", v)[w]
                            = wallet_stats'[w]]_vars

\* Wallet 1's profile was computed after one event and again after a second.
C21_Witness ==
    /\ HasStats(wallet_stats, 1, "scan")
    /\ wallet_stats[1].total_tx_count = 2
    /\ wallet_stats[1].avg_num = 7 /\ wallet_stats[1].avg_den = 2
    /\ Len(transactions) = 3

(***************************************************************************)
(* PaymentVerifier.verify_sol_payment (bot/payment.py) on its own.         *)
(* Balances are in units of 1000 lamports.                                 *)
(***************************************************************************)
PRICE_SOL_COPY_TRADER == 220000
PRICE_SOL_RESEARCHER == 440000

\* The change of the treasury balance: nothing, 0.1 SOL, and the amounts
\* around 98% and 100% of the two prices; once a decrease.
PaymentDeltas == {-100000, 0, 100000, 215599, 215600, 220000, 230000,
                  431199, 431200, 440000}

\* form: the text handed in is a transaction signature (64 bytes) or has
\* the length of an account address (32 bytes), as in test_payment_logic.py;
\* raises: the RPC client fails; found, meta, err, treasury and delta: what
\* the chain holds for it.
PaymentCalls ==
    [form : {"signature", "pubkey"}, raises : BOOLEAN, found : BOOLEAN,
     meta : BOOLEAN, err : BOOLEAN, treasury : BOOLEAN, delta : PaymentDeltas,
     tier : {"COPY_TRADER", "RESEARCHER"}]

\* Lines 25-95.  Pubkey.from_string (line 37) accepts 32-byte strings only
\* and raises for a signature; every exception ends at line 93.
verify_sol_payment(a) ==
    LET required_amount == IF a.tier = "COPY_TRADER" THEN PRICE_SOL_COPY_TRADER
                           ELSE IF a.tier = "RESEARCHER" THEN PRICE_SOL_RESEARCHER
                           ELSE 0
    IN IF a.form # "pubkey" \/ a.raises
          THEN [success |-> FALSE, reason |-> "error"]
       ELSE IF ~a.found THEN [success |-> FALSE, reason |-> "not found"]
       ELSE IF ~a.meta THEN [success |-> FALSE, reason |-> "no metadata"]
       ELSE IF a.err THEN [success |-> FALSE, reason |-> "failed on-chain"]
       ELSE IF ~a.treasury THEN [success |-> FALSE, reason |-> "treasury not involved"]
       ELSE IF a.delta * 100 >= required_amount * 98
          THEN [success |-> TRUE, reason |-> "verified"]
       ELSE [success |-> FALSE, reason |-> "insufficient"]

InitPayment ==
    /\ InitDb
    /\ cls_in = NoRaw
    /\ cls_out = <<>>
    /\ call_args \in PaymentCalls
    /\ call_result = <<>>
    /\ task = [t \in Tasks |-> IdleTask("off")]

call_verify_sol_payment ==
    /\ call_result = <<>>
    /\ call_result' = <<verify_sol_payment(call_args)>>
    /\ UNCHANGED <<cls_in, cls_out, call_args, now, dbVars, task, histVars>>

NextPayment == call_verify_sol_payment

SpecPayment == InitPayment /\ [][NextPayment]_vars

\* C22: unless the RPC call itself fails, verify_sol_payment succeeds
\* exactly when the transaction is found with its metadata, did not fail
\* on chain, involves the treasury, and raised the treasury balance by at
\* least 98% of the tier's price.
C22_PaymentVerified ==
    (call_result # <<>> /\ ~call_args.raises) =>
        (call_result[1].success <=>
            /\ call_args.found /\ call_args.meta /\ ~call_args.err
            /\ call_args.treasury
            /\ call_args.delta * 100
                  >= 98 * (IF call_args.tier = "COPY_TRADER" THEN 220000 ELSE 440000))

(***************************************************************************)
(* TransactionFilter.assess_evm_transaction (transaction_filter.py) on its *)
(* own.  ETH values are in units of 0.0001 ETH.                            *)
(***************************************************************************)
DUST_THRESHOLD == 10
MIN_ETH_VALUE == 1000
HIGH_VALUE_ETH == 100000

Importance == {"SKIP", "LOW", "MEDIUM", "HIGH"}

EvmValues == {0, 1, 9, 10, 500, 999, 1000, 50000, 99999, 100000, 100001, 150000}

\* to: no destination, a known DEX router, another address.  input: the
\* key is missing (the default '0x' applies), '0x', the empty string, data
\* of at most 10 characters, or longer data that starts with a swap
\* signature, with the ERC20 transfer signature, or with neither.
\* malformed: tx is no dict or its value cannot be converted.
EvmCalls ==
    [to : {"none", "router", "other"},
     input : {"missing", "0x", "", "short", "swap", "transfer", "call"},
     value : EvmValues, malformed : BOOLEAN]

\* _is_token_swap, lines 183-201.
is_token_swap(input) == input = "swap"

\* Lines 121-181.
assess_evm_transaction(a) ==
    LET eth_value == a.value
        is_contract_call == a.input \in {"swap", "transfer", "call"}
    IN IF a.malformed THEN "MEDIUM"
       ELSE IF a.to = "router"
          THEN IF eth_value > HIGH_VALUE_ETH \/ is_token_swap(a.input)
               THEN "HIGH" ELSE "MEDIUM"
       ELSE IF is_contract_call
          THEN IF eth_value > HIGH_VALUE_ETH THEN "HIGH"
               ELSE IF eth_value > MIN_ETH_VALUE THEN "MEDIUM"
               ELSE IF a.input = "transfer" THEN "MEDIUM"
               ELSE "LOW"
       ELSE IF eth_value < DUST_THRESHOLD THEN "SKIP"
       ELSE IF eth_value < MIN_ETH_VALUE THEN "LOW"
       ELSE IF eth_value < HIGH_VALUE_ETH THEN "MEDIUM"
       ELSE "HIGH"

InitEvm ==
    /\ InitDb
    /\ cls_in = NoRaw
    /\ cls_out = <<>>
    /\ call_args \in EvmCalls
    /\ call_result = <<>>
    /\ task = [t \in Tasks |-> IdleTask("off")]

call_assess_evm_transaction ==
    /\ call_result = <<>>
    /\ call_result' = <<assess_evm_transaction(call_args)>>
    /\ UNCHANGED <<cls_in, cls_out, call_args, now, dbVars, task, histVars>>

NextEvm == call_assess_evm_transaction

SpecEvm == InitEvm /\ [][NextEvm]_vars

\* C23: assess_evm_transaction always returns one of the four levels; a
\* plain ETH transfer (no input data, destination not a DEX router) is SKIP
\* below 0.001 ETH, LOW below 0.1 ETH, MEDIUM from 0.1 to 10 ETH and HIGH
\* above 10 ETH.
C23_EthTransferLevels ==
    call_result # <<>> =>
        /\ call_result[1] \in Importance
        /\ (/\ ~call_args.malformed
            /\ call_args.to # "router"
            /\ call_args.input \in {"missing", "0x", ""})
           => call_result[1] =
                 IF call_args.value < 10 THEN "SKIP"
                 ELSE IF call_args.value < 1000 THEN "LOW"
                 ELSE IF call_args.value <= 100000 THEN "MEDIUM"
                 ELSE "HIGH"

\* The wallet's balance of a mint in a list of token balances (0 when the
\* list has no entry for it), and the change over the transaction.
BalanceOf(bals, mint) ==
    IF \E i \in 1..Len(bals) : bals[i].mint = mint
    THEN bals[CHOOSE i \in 1..Len(bals) : bals[i].mint = mint].amt
    ELSE 0

Delta(raw, mint) == BalanceOf(raw.post, mint) - BalanceOf(raw.pre, mint)

OneEntryPerMint(bals) ==
    \A i, j \in 1..Len(bals) : bals[i].mint = bals[j].mint => i = j

\* The mints, stable or not, that the transaction gained (sign 1) or lost
\* (sign -1) beyond dust.
Moved(raw, stable, sign) ==
    {m \in Mints : /\ (OnChainSymbol(m) \in stables) = stable
                   /\ sign * Delta(raw, m) > TOKEN_DUST}

\* The kind the precedence rules give.
RuleKind(raw) ==
    IF Moved(raw, FALSE, -1) # {}
          /\ (Moved(raw, TRUE, 1) # {} \/ raw.solDiff > SOL_DUST) THEN "SELL"
    ELSE IF Moved(raw, FALSE, 1) # {}
          /\ (Moved(raw, TRUE, -1) # {} \/ raw.solDiff < 0 - SOL_DUST) THEN "BUY"
    ELSE IF Moved(raw, FALSE, -1) # {} /\ Moved(raw, FALSE, 1) # {} THEN "SWAP"
    ELSE IF Moved(raw, FALSE, -1) # {} THEN "SELL"
    ELSE IF Abs(raw.solDiff) > SOL_DUST THEN "TRANSFER"
    ELSE "UNKNOWN"

\* C24: a well-formed transaction in which some non-stable token changes by
\* more than dust is classified by the first matching rule: SELL, BUY,
\* SWAP (the gained token and its amount being the event's), SELL of a
\* token only lost, else TRANSFER or UNKNOWN by the native change.
C24_FirstMatchingRule ==
    (/\ cls_out # <<>>
     /\ cls_in.fault = "none"
     /\ OneEntryPerMint(cls_in.pre) /\ OneEntryPerMint(cls_in.post)
     /\ Moved(cls_in, FALSE, 1) \cup Moved(cls_in, FALSE, -1) # {})
    => /\ cls_out[1].type = RuleKind(cls_in)
       /\ cls_out[1].type = "SWAP" =>
             /\ cls_out[1].token_addr \in Moved(cls_in, FALSE, 1)
             /\ cls_out[1].amount = Delta(cls_in, cls_out[1].token_addr)

\* The reloads of wallet w that a table holds as resolved with a buy, and
\* as resolved at all.
WithBuy(reloads, w) ==
    SelectSeq(reloads, LAMBDA r : r.wallet_id = w /\ r.followed_by_buy = "True")

Resolved(reloads, w) ==
    SelectSeq(reloads, LAMBDA r : r.wallet_id = w /\ r.followed_by_buy # "None")

MinutesOf(rs) == [i \in 1..Len(rs) |-> rs[i].time_to_buy_minutes]

\* C25: when a call of check_reload_resolution resolves a reload of a wallet
\* that has a profile, it completes without error and leaves
\* reload_buy_probability = 100 * with-buy / resolved and
\* avg_time_to_buy_after_reload = the mean (in whole minutes) of
\* time_to_buy_minutes over all the wallet's reloads resolved with a buy,
\* those of 0 minutes included.
C25_ReloadStatistics ==
    [][\A w \in Wallets, h \in BuyHashes :
          LET res == check_reload_resolution(reload_events, wallet_stats, "scan", w, h, now)
          IN (/\ reload_events' = res.reloads
              /\ wallet_stats' = res.stats
              /\ reload_events' # reload_events
              /\ HasStats(wallet_stats, w, "scan"))
             => /\ ~res.raised
                /\ wallet_stats'[w].reload_buy_probability =
                      (100 * Len(WithBuy(reload_events', w)))
                          \div Len(Resolved(reload_events', w))
                /\ wallet_stats'[w].avg_time_to_buy_after_reload =
                      SumSeq(MinutesOf(WithBuy(reload_events', w)))
                          \div Len(WithBuy(reload_events', w))]_vars

\* The cluster mates that share a funding source with the trigger.
SharingMates ==
    {o \in ClusterMates : SourcesOf(o) \cap SourcesOf(Trigger.wallet_id) # {}}

\* C26: the confidence of a CABAL moment is min(100, 50 + 15 * k), k being
\* the number of distinct other wallets of the cluster that share a funding
\* source with the trigger, and its cluster size is the number of distinct
\* wallets, the trigger included: a wallet with several buys counts once.
C26_DistinctAddresses ==
    Ingested =>
        \A m \in 1..Len(moments) :
            /\ moments[m].cluster_size = Cardinality(ClusterMates) + 1
            /\ moments[m].confidence =
                  IF 50 + 15 * Cardinality(SharingMates) > 100 THEN 100
                  ELSE 50 + 15 * Cardinality(SharingMates)


\* The stored BUY/SWAP rows of other wallets for the token of the buy that
\* task t is processing whose on-chain timestamp lies in the 30 minutes that
\* precede the on-chain time of that buy.
TrailingBuyers(t) ==
    SelectSeq(Visible(transactions, t),
              LAMBDA r : /\ r.tx_type \in {"BUY", "SWAP"}
                         /\ r.token_symbol = task[t].ev.symbol
                         /\ r.wallet_id # task[t].w
                         /\ r.timestamp <= block_time(Sig(t))
                         /\ r.timestamp >= block_time(Sig(t)) - CABAL_TIME_WINDOW_MINUTES)

\* C27: when detect_cluster_buy runs for a buy of a non-stable token, it counts
\* exactly the BUY/SWAP rows of other wallets for the same token whose on-chain
\* timestamp lies within the 30 minutes preceding the triggering buy: a cabal
\* moment is added iff there is such a row, and its cluster size is their number
\* plus one, however long after its on-chain time the buy is ingested.
C27_TrailingWindow ==
    [][\A t \in DOMAIN task :
          (/\ task[t].pc = "cabal"
           /\ task'[t].pc = "contrarian"
           /\ task[t].ev.type = "BUY"
           /\ task[t].ev.symbol \notin {"None", "SOL", "USDC", "USDT"})
          => /\ (Len(moments') > Len(moments)) <=> (TrailingBuyers(t) # <<>>)
             /\ Len(moments') > Len(moments)
                   => moments'[Len(moments')].cluster_size = Len(TrailingBuyers(t)) + 1]_vars


\* C28: the analysis run for an ingested trade of a non-stable token emits
\* SCAMMER_ACCUMULATION iff at least two distinct tier-C wallets bought the
\* token inside the 60-minute window; a single tier-C wallet with several
\* buys is one wallet.
C28_AccumulationDistinct ==
    (Ingested /\ Trigger.token_symbol \notin {"None", "SOL", "USDC", "USDT"}) =>
        ("SCAMMER_ACCUMULATION" \in Emitted
            <=> Cardinality(TierTraders("C", {"BUY", "SWAP"})) >= 2)

\* C29: the analysis run for an ingested trade of a non-stable token emits
\* SCAMMER_ONLY iff some tier-C wallet bought or sold the token inside the
\* 60-minute window and no tier-A wallet bought or sold it inside the window.
C29_ScammerOnly ==
    (Ingested /\ Trigger.token_symbol \notin {"None", "SOL", "USDC", "USDT"}) =>
        ("SCAMMER_ONLY" \in Emitted
            <=> /\ TierTraders("C", {"BUY", "SWAP", "SELL"}) # {}
                /\ TierTraders("A", {"BUY", "SWAP", "SELL"}) = {})


\* ---------------------------------------------------------------------------
\* alpha_decay.py: track_copiers_for_trade over a table of stored trades.
\* Timestamps of this specification are in seconds.
\* ---------------------------------------------------------------------------

MaxCopyRows == 2

COPY_WINDOW_SECONDS == 300

\* The calls: the lead wallet, the token of its buy, the time of its buy.
CopierCalls == [wallet : {1}, token_symbol : {"X", "USDC"}, buy_timestamp : {100}]

\* Lines 30-57.  The statement counts the distinct ids of the selected rows,
\* that is, the rows: tx_type 'SWAP' only, same symbol, timestamp from the buy
\* to 300 seconds later (both ends included), another wallet, amount > 0.
track_copiers_for_trade(txs, t, a) ==
    IF a.token_symbol = "None" \/ a.token_symbol \in {"SOL", "USDC", "USDT"} THEN 0
    ELSE Len(SelectSeq(Visible(txs, t), LAMBDA r :
                 /\ r.tx_type = "SWAP"
                 /\ r.token_symbol = a.token_symbol
                 /\ r.timestamp >= a.buy_timestamp
                 /\ r.timestamp <= a.buy_timestamp + COPY_WINDOW_SECONDS
                 /\ r.wallet_id # a.wallet
                 /\ r.amount > 0))

InitCopiers ==
    /\ InitDb
    /\ cls_in = NoRaw
    /\ cls_out = <<>>
    /\ call_args \in CopierCalls
    /\ call_result = <<>>
    /\ task = [t \in Tasks |-> IdleTask("off")]

\* A trade stored by the tracker before the copiers are counted.
store_trade ==
    /\ call_result = <<>>
    /\ Len(transactions) < MaxCopyRows
    /\ \E w \in {1, 2}, type \in {"BUY", "SWAP", "SELL"}, token \in {"X", "Y"},
          amt \in {0, 5},
          at \in {call_args.buy_timestamp,
                  call_args.buy_timestamp + COPY_WINDOW_SECONDS,
                  call_args.buy_timestamp + COPY_WINDOW_SECONDS + 1} :
          transactions' = Append(transactions,
              [TradeRow(Len(transactions) + 1, w, type, token, at, "committed")
                  EXCEPT !.amount = amt])
    /\ UNCHANGED <<clsVars, now, reload_events, moments, wallet_stats, funding_links,
                   task, histVars>>

call_track_copiers_for_trade ==
    /\ call_result = <<>>
    /\ call_result' = <<track_copiers_for_trade(transactions, "scan", call_args)>>
    /\ UNCHANGED <<cls_in, cls_out, call_args, now, dbVars, task, histVars>>

NextCopiers == store_trade \/ call_track_copiers_for_trade

SpecCopiers == InitCopiers /\ [][NextCopiers]_vars

\* The other wallets with a stored buy (a BUY or SWAP row of a positive
\* amount) of the token of the call within the 5 minutes after the lead buy.
CopierWallets ==
    {transactions[i].wallet_id : i \in
        {j \in 1..Len(transactions) :
            /\ transactions[j].tx_type \in {"BUY", "SWAP"}
            /\ transactions[j].amount > 0
            /\ transactions[j].token_symbol = call_args.token_symbol
            /\ transactions[j].wallet_id # call_args.wallet
            /\ transactions[j].timestamp >= call_args.buy_timestamp
            /\ transactions[j].timestamp <= call_args.buy_timestamp + COPY_WINDOW_SECONDS}}

\* C30: track_copiers_for_trade returns the number of distinct other wallets
\* that bought the token (a BUY or SWAP row) within the 5 minutes after the
\* lead buy, each wallet counted once, and 0 for a stable token.
C30_DistinctCopiers ==
    call_result # <<>> =>
        call_result[1] = IF call_args.token_symbol \in {"SOL", "USDC", "USDT"} THEN 0
                         ELSE Cardinality(CopierWallets)


\* A ReloadEvent in the unresolved state.
Unresolved(r) ==
    /\ r.followed_by_buy = "None"
    /\ r.resolved_at = -1
    /\ r.buy_tx_hash = 0
    /\ r.time_to_buy_minutes = -1

\* C31: a call of detect_reload appends one unresolved ReloadEvent for the
\* wallet and the funding transaction iff the inflow is at least 5 SOL and no
\* ReloadEvent with that transaction hash exists; otherwise the table of
\* ReloadEvents stays as it is.  In both cases the rows that existed are
\* unchanged.
C31_ReloadCreated ==
    [][\A w \in Wallets, h \in 1..(MaxReloads + 1),
          sol_change \in {MIN_RELOAD_SOL - 1, MIN_RELOAD_SOL} :
          reload_events' = detect_reload(reload_events, "scan", w, h, sol_change, now)
          => IF /\ sol_change >= MIN_RELOAD_SOL
                /\ \A i \in 1..Len(reload_events) : reload_events[i].tx_hash # h
             THEN /\ Len(reload_events') = Len(reload_events) + 1
                  /\ SubSeq(reload_events', 1, Len(reload_events)) = reload_events
                  /\ Unresolved(reload_events'[Len(reload_events')])
                  /\ reload_events'[Len(reload_events')].wallet_id = w
                  /\ reload_events'[Len(reload_events')].tx_hash = h
                  /\ reload_events'[Len(reload_events')].amount = sol_change
             ELSE reload_events' = reload_events]_vars

\* Two inflows of 5 SOL with different hashes were detected, the second
\* while the first was already resolved: the first kept its resolution.
C31_Witness ==
    /\ Len(reload_events) = 2
    /\ reload_events[1].tx_hash # reload_events[2].tx_hash
    /\ reload_events[1].followed_by_buy = "True"
    /\ reload_events[1].resolved_at < reload_events[2].detected_at
    /\ Unresolved(reload_events[2])
    /\ reload_events[2].amount = MIN_RELOAD_SOL


\* The sum of the four importance counters of a scan's statistics.
ByImportance(stats) == stats.high + stats.medium + stats.low + stats.skipped

\* C32: when the first scan has returned, new_txs of its statistics is the
\* number of transactions stored during the scan (then every stored row), and
\* the counters high, medium, low and skipped add up to new_txs.
C32_ScanStatistics ==
    (task["scan"].pc = "done" /\ task["scan"].runs = 1) =>
        /\ task["scan"].stats.new_txs = Len(transactions)
        /\ ByImportance(task["scan"].stats) = task["scan"].stats.new_txs


\* The non-stable mints the wallet held beyond dust before the transaction
\* that the post-transaction balances do not list any more.
ClosedOut(raw) ==
    {m \in Mints : /\ OnChainSymbol(m) \notin stables
                   /\ BalanceOf(raw.pre, m) > TOKEN_DUST
                   /\ \A i \in 1..Len(raw.post) : raw.post[i].mint # m}

\* C33: a well-formed transaction that closes out a non-stable token (held
\* before, absent from the post-transaction balances) and gains no
\* non-stable token is classified as a SELL of a closed-out or otherwise
\* lost token.
C33_ClosedAccountIsSell ==
    (/\ cls_out # <<>>
     /\ cls_in.fault = "none"
     /\ OneEntryPerMint(cls_in.pre) /\ OneEntryPerMint(cls_in.post)
     /\ ClosedOut(cls_in) # {}
     /\ Moved(cls_in, FALSE, 1) = {})
    => /\ cls_out[1].type = "SELL"
       /\ cls_out[1].token_addr \in Moved(cls_in, FALSE, -1)


\* ---------------------------------------------------------------------------
\* Transfers of SOL between two tracked wallets: each of them appears in the
\* signature lists of both, and check_wallet runs for it once per wallet.
\* ---------------------------------------------------------------------------

MaxTransfers == 2

\* A transfer on chain: sender, receiver, amount in thousandths of SOL.
Transfers ==
    {x \in [from : Wallets, to : Wallets,
            amt : {MIN_RELOAD_SOL - 1000, MIN_RELOAD_SOL + 1000}] : x.from # x.to}

\* Lines 158-178: the transaction as wallet w's check_wallet reads it, the
\* native balance of w going up for the receiver and down for the sender.
transfer_raw(x, w) ==
    [fault |-> "none", solDiff |-> IF w = x.to THEN x.amt ELSE 0 - x.amt,
     pre |-> <<>>, post |-> <<>>]

\* call_args is the chain's list of transfers; transfer h has signature h.
InitTransfers ==
    /\ InitDb
    /\ cls_in = NoRaw
    /\ cls_out = <<>>
    /\ call_args \in SeqsUpTo(Transfers, MaxTransfers) \ {<<>>}
    /\ call_result = <<>>
    /\ task = [t \in Tasks |-> IdleTask("off")]

\* check_wallet lines 128-383 for wallet w and one signature h of its list:
\* skipped when a Transaction with the hash exists; else stored, passed to
\* detect_reload when it is an inflow, then to the pattern engine, and
\* committed.
ingest_transfer ==
    \E h \in 1..Len(call_args) :
    \E w \in {call_args[h].from, call_args[h].to} :
       LET ev == classify(transfer_raw(call_args[h], w))
           tx == [tx_hash |-> h, wallet_id |-> w, tx_type |-> ev.type,
                  token_symbol |-> ev.symbol, token_address |-> ev.token_addr,
                  amount |-> ev.amount, timestamp |-> block_time(h), by |-> "scan"]
           txs == Append(transactions, tx)
           reloads == IF ev.type = "TRANSFER" /\ ev.symbol = "SOL" /\ ev.sol_diff > 0
                      THEN detect_reload(reload_events, "scan", w, h, ev.sol_diff, now)
                      ELSE reload_events
           stats == update_wallet_stats(txs, wallet_stats, "scan", w)
       IN /\ IF existing(transactions, "scan", h)
             THEN UNCHANGED <<transactions, reload_events, moments, wallet_stats>>
             ELSE /\ transactions' = Commit(txs, "scan")
                  /\ reload_events' = Commit(reloads, "scan")
                  /\ wallet_stats' = CommitStats(stats, "scan")
                  /\ moments' = Commit(detect_patterns(txs, stats, moments, "scan", tx, now),
                                       "scan")
          /\ task' = [task EXCEPT !["scan"] =
                         [IdleTask("after_wallet") EXCEPT !.w = w, !.sigs = <<h>>, !.i = 1,
                                                          !.ev = ev]]
          /\ UNCHANGED <<clsVars, now, funding_links, histVars>>

NextTransfers == ingest_transfer

SpecTransfers == InitTransfers /\ [][NextTransfers]_vars

\* C34: when check_wallet has run for the receiver of a transfer of at least
\* 5 SOL between two tracked wallets, a ReloadEvent of the receiver for that
\* transaction exists, whichever of the two wallets was scanned first.
C34_ReloadOfReceiver ==
    (/\ task["scan"].pc = "after_wallet"
     /\ task["scan"].w = call_args[Sig("scan")].to
     /\ call_args[Sig("scan")].amt >= MIN_RELOAD_SOL)
    => \E i \in 1..Len(reload_events) :
          /\ reload_events[i].tx_hash = Sig("scan")
          /\ reload_events[i].wallet_id = task["scan"].w


\* A ReloadEvent resolved by a buy.
ResolvedWithBuy(r) ==
    /\ r.followed_by_buy = "True"
    /\ r.resolved_at >= 0
    /\ r.buy_tx_hash # 0
    /\ r.time_to_buy_minutes >= 0
    /\ r.time_to_buy_minutes <= PREDICTION_WINDOW_MINUTES

\* A ReloadEvent resolved as stale.
ResolvedWithoutBuy(r) ==
    /\ r.followed_by_buy = "False"
    /\ r.resolved_at >= 0
    /\ r.buy_tx_hash = 0
    /\ r.time_to_buy_minutes = -1

\* C35: every ReloadEvent is unresolved, resolved with a buy (buy hash and
\* resolution time set, 0 to 120 minutes to the buy) or resolved without a
\* buy (resolution time set, no buy hash, no minutes).
C35_ReloadWellFormed ==
    \A i \in 1..Len(reload_events) :
        \/ Unresolved(reload_events[i])
        \/ ResolvedWithBuy(reload_events[i])
        \/ ResolvedWithoutBuy(reload_events[i])

\* A reload resolved as stale, and a later one resolved by a buy a minute
\* after its detection.
C35_Witness ==
    \E i, j \in 1..Len(reload_events) :
        /\ ResolvedWithoutBuy(reload_events[i])
        /\ ResolvedWithBuy(reload_events[j])
        /\ reload_events[j].time_to_buy_minutes = 1
        /\ reload_events[j].detected_at >= reload_events[i].resolved_at


\* C36: a call of check_reload_resolution for one wallet changes no
\* ReloadEvent of another wallet and no other wallet's statistics, and a
\* call of resolve_stale_reloads changes no ReloadEvent that is resolved or
\* was detected within the last 120 minutes; neither adds or removes a
\* ReloadEvent.
C36_ReloadFrame ==
    [][(reload_events' # reload_events \/ wallet_stats' # wallet_stats) =>
       /\ \A w \in Wallets, h \in BuyHashes :
             LET res == check_reload_resolution(reload_events, wallet_stats, "scan", w, h, now)
             IN (reload_events' = res.reloads /\ wallet_stats' = res.stats)
                => /\ Len(reload_events') = Len(reload_events)
                   /\ \A i \in 1..Len(reload_events) :
                          reload_events[i].wallet_id # w
                              => reload_events'[i] = reload_events[i]
                   /\ \A v \in Wallets \ {w} : wallet_stats'[v] = wallet_stats[v]
       /\ (/\ reload_events' = resolve_stale_reloads(reload_events, "scan", now)
           /\ wallet_stats' = wallet_stats)
          => /\ Len(reload_events') = Len(reload_events)
             /\ \A i \in 1..Len(reload_events) :
                    (\/ reload_events[i].followed_by_buy # "None"
                     \/ reload_events[i].detected_at >= now - PREDICTION_WINDOW_MINUTES)
                        => reload_events'[i] = reload_events[i]]_vars

\* A buy of one wallet resolved its reload while an earlier reload of another
\* wallet, detected inside the window, stayed open.
C36_Witness ==
    \E i, j \in 1..Len(reload_events) :
        /\ reload_events[i].followed_by_buy = "True"
        /\ reload_events[j].wallet_id # reload_events[i].wallet_id
        /\ Unresolved(reload_events[j])
        /\ reload_events[j].detected_at <= reload_events[i].resolved_at
        /\ reload_events[j].detected_at >=
               reload_events[i].resolved_at - PREDICTION_WINDOW_MINUTES


\* ---------------------------------------------------------------------------
\* telegram_handler.py: /start and /verify <tx_hash>, all for one payment
\* transaction.  call_args is what the chain holds for the hash presented;
\* call_result lists the answers to /verify.
\* ---------------------------------------------------------------------------

MaxVerifies == 2

InitVerify ==
    /\ InitDb
    /\ cls_in = NoRaw
    /\ cls_out = <<>>
    /\ call_args \in {a \in PaymentCalls : ~a.raises /\ a.tier = "RESEARCHER"}
    /\ call_result = <<>>
    /\ task = [t \in Tasks |-> IdleTask("off")]

\* cmd_start lines 187-203: the chat gets a users row, as RESEARCHER.
cmd_start ==
    /\ \E u \in ChatIds : users' = [users EXCEPT ![u] = "RESEARCHER"]
    /\ UNCHANGED <<clsVars, now, dbVars, task, calls, unprofiled, contrarian_signals,
                   copiers>>

\* cmd_verify_payment lines 363-411: the hash is checked as a RESEARCHER
\* payment, then as a COPY_TRADER payment; on success the user's row, if
\* there is one, gets the tier.  Each check may fail at the RPC client.
cmd_verify_payment ==
    /\ Len(call_result) < MaxVerifies
    /\ \E u \in ChatIds, fail1, fail2 \in BOOLEAN :
          LET first == verify_sol_payment(
                           [call_args EXCEPT !.tier = "RESEARCHER", !.raises = fail1])
              second == verify_sol_payment(
                           [call_args EXCEPT !.tier = "COPY_TRADER", !.raises = fail2])
              success == first.success \/ second.success
              new_tier == IF ~first.success /\ second.success THEN "COPY_TRADER"
                          ELSE "RESEARCHER"
              upgraded == success /\ users[u] # "absent"
          IN /\ users' = IF upgraded THEN [users EXCEPT ![u] = new_tier] ELSE users
             /\ call_result' = Append(call_result,
                    [chat_id |-> u, success |-> success, new_tier |-> new_tier,
                     upgraded |-> upgraded])
    /\ UNCHANGED <<cls_in, cls_out, call_args, now, dbVars, task, calls, unprofiled,
                   contrarian_signals, copiers>>

NextVerify == cmd_start \/ cmd_verify_payment

SpecVerify == InitVerify /\ [][NextVerify]_vars

\* C37: the payment transaction upgrades at most one user: after one
\* /verify of the hash was answered with an upgrade, no later /verify of
\* it, by the same or another user, is.
C37_HashUsedOnce ==
    Cardinality({i \in 1..Len(call_result) : call_result[i].upgraded}) <= 1

====
